---------------------------- MODULE Spec2Model ----------------------------
(***************************************************************************)
(* Heuristic pixel-analysis engine of Roboroca: the canopy counter         *)
(* (tree_counter.py), the symptom classifier (pest_detector.py) and the    *)
(* biomass estimator (biomass_estimator.py), modelled on 8-bit RGB images  *)
(* given pixel by pixel.                                                   *)
(*                                                                         *)
(* Numbers.  TLC integers are 32-bit, the code computes in float64.        *)
(* Ratios are kept as exact fractions <<num, den>> and compared by cross   *)
(* multiplication; reported percentages are integers in hundredths (the    *)
(* code rounds them to two decimals).  Library calls (PIL, numpy, scipy,   *)
(* OpenCV) are modelled by what they compute on 8-bit input.               *)
(***************************************************************************)
EXTENDS Integers, Sequences, FiniteSets, Bags, TLC

VARIABLES
    input,      \* the call under analysis: which entry point and its arguments
    output,     \* its return value, "none" until the call has returned
    locals,     \* the local variables of the call when it returned
    pc          \* "called" while the head runs, "returned" afterwards

vars == <<input, output, locals, pc>>

---------------------------------------------------------------------------
(* Arithmetic helpers *)

Only(S) == CHOOSE v \in S : TRUE

Abs(a) == IF a < 0 THEN -a ELSE a

Max2(a, b) == IF a >= b THEN a ELSE b

Min2(a, b) == IF a <= b THEN a ELSE b

SetMin(S) == CHOOSE a \in S : \A b \in S : a <= b

SetMax(S) == CHOOSE a \in S : \A b \in S : a >= b

RECURSIVE Gcd(_, _)
Gcd(a, b) == IF b = 0 THEN a ELSE Gcd(b, a % b)

\* a fraction in lowest terms with a positive denominator
Frac(n, d) ==
    LET g == Gcd(Abs(n), Abs(d))
        s == IF d < 0 THEN -1 ELSE 1
    IN  IF n = 0 THEN <<0, 1>> ELSE <<s * (n \div g), s * (d \div g)>>

FracLess(p, q) == p[1] * q[2] < q[1] * p[2]

FracMax(p, q) == IF FracLess(p, q) THEN q ELSE p

FracMin(p, q) == IF FracLess(p, q) THEN p ELSE q

\* Python's int() of a non-negative quotient n/d
IntDiv(n, d) == n \div d

\* the sum of the values of a function into the naturals (the size of the
\* bag that holds j exactly f[j] + 1 times, less one per j)
Sum(f) == BagCardinality([j \in DOMAIN f |-> f[j] + 1]) - Cardinality(DOMAIN f)

SumOver(f, S) == Sum([a \in S |-> f[a]])

\* round(100 * a / n, 2) in hundredths: the nearest integer to 10000*a/n,
\* an exact half going to the even neighbour as Python's round does
RoundPct(a, n) ==
    LET q == (10000 * a) \div n
        r == (10000 * a) % n
    IN  IF 2 * r > n THEN q + 1
        ELSE IF 2 * r < n THEN q
        ELSE IF q % 2 = 0 THEN q ELSE q + 1

---------------------------------------------------------------------------
(* Colours.  A pixel is an 8-bit RGB triple <<r, g, b>>. *)

\* cv2.cvtColor(image, cv2.COLOR_RGB2GRAY) on 8-bit input: OpenCV's 14-bit
\* fixed-point luma, (4899 r + 9617 g + 1868 b + 2^13) >> 14
RGB2GRAY(c) == (4899 * c[1] + 9617 * c[2] + 1868 * c[3] + 8192) \div 16384

\* cv2.cvtColor(image, cv2.COLOR_RGB2HSV) on 8-bit input: H in 0..179 (half
\* degrees), S and V in 0..255, with OpenCV's 12-bit fixed-point division
\* tables sdiv_table[v] = round((255 << 12) / v), hdiv_table[d] =
\* round((180 << 12) / (6 d)).
RoundDiv(n, d) == (2 * n + d) \div (2 * d)

RGB2HSV(c) ==
    LET r == c[1]
        g == c[2]
        b == c[3]
        v == Max2(r, Max2(g, b))
        vmin == Min2(r, Min2(g, b))
        diff == v - vmin
        sdiv == IF v = 0 THEN 0 ELSE RoundDiv(1044480, v)
        hdiv == IF diff = 0 THEN 0 ELSE RoundDiv(737280, 6 * diff)
        s == (diff * sdiv + 2048) \div 4096
        hraw == IF v = r THEN g - b
                ELSE IF v = g THEN b - r + 2 * diff
                ELSE r - g + 4 * diff
        h0 == (hraw * hdiv + 2048) \div 4096
        h == IF h0 < 0 THEN h0 + 180 ELSE h0
    IN  [h |-> h, s |-> s, v |-> v]

\* The hue of a colour in degrees on the 0..360 circle lies in [lo, hi]
\* (exact hue 60 * hraw / diff; a colour without hue has 0).
HueDegreesIn(c, lo, hi) ==
    LET r == c[1]
        g == c[2]
        b == c[3]
        v == Max2(r, Max2(g, b))
        diff == v - Min2(r, Min2(g, b))
        hraw == IF v = r THEN g - b
                ELSE IF v = g THEN b - r + 2 * diff
                ELSE r - g + 4 * diff
        num == IF hraw < 0 THEN 60 * hraw + 360 * diff ELSE 60 * hraw
    IN  IF diff = 0 THEN lo <= 0 /\ 0 <= hi
        ELSE lo * diff <= num /\ num <= hi * diff

\* Excess Green (2g - r - b) / (r + g + b + 1e-10) of the channels scaled to
\* [0,1] (pest_detector.py, biomass_estimator.py, tree_counter.py): the
\* scaling cancels, and the epsilon only decides the black pixel, whose
\* index is 0.
ExG(c) ==
    IF c[1] + c[2] + c[3] = 0 THEN <<0, 1>>
    ELSE Frac(2 * c[2] - c[1] - c[3], c[1] + c[2] + c[3])

---------------------------------------------------------------------------
(* Images.  An image file is described by its size, a background colour    *)
(* and axis-parallel rectangles painted over it in order; rectangles are   *)
(* <<x0, y0, x1, y1, colour>> with inclusive corners.                      *)

PixelAt(img, x, y) ==
    LET hit == {k \in 1..Len(img.rects) :
                    /\ img.rects[k][1] <= x /\ x <= img.rects[k][3]
                    /\ img.rects[k][2] <= y /\ y <= img.rects[k][4]}
    IN  IF hit = {} THEN img.bg ELSE img.rects[SetMax(hit)][5]

\* PILImage.open + convert('RGB') + the resize to at most max_size on the
\* longer side + np.array: the pixel array the heads analyse, as
\* [w, h, scale, px] with px indexed by y * w + x.  scale = max_size /
\* max(img.size) is kept as a fraction in lowest terms, new_size is
\* (int(w * scale), int(h * scale)).  LANCZOS resampling is modelled by the
\* source pixel under the centre of each target pixel, which is what it
\* yields inside areas of one colour (its ringing at colour edges is not
\* modelled).
LoadImage(img, max_size) ==
    LET long == Max2(img.w, img.h)
        resized == long > max_size
        scale == IF resized THEN Frac(max_size, long) ELSE <<1, 1>>
        w == IF resized THEN IntDiv(img.w * scale[1], scale[2]) ELSE img.w
        h == IF resized THEN IntDiv(img.h * scale[1], scale[2]) ELSE img.h
    IN  [w |-> w, h |-> h, scale |-> scale, resized |-> resized,
         px |-> [i \in 0..(w * h - 1) |->
                    LET x == i % w
                        y == i \div w
                    IN  IF resized
                        THEN PixelAt(img, IntDiv((2 * x + 1) * img.w, 2 * w),
                                          IntDiv((2 * y + 1) * img.h, 2 * h))
                        ELSE PixelAt(img, x, y)]]

---------------------------------------------------------------------------
(* Vegetation index and masks *)

\* the k-th smallest (k from 0) of the values Val(px[i])
OrderStatistic(px, Val(_), k) ==
    LET colours == {px[i] : i \in DOMAIN px}
        count == [c \in colours |-> Cardinality({i \in DOMAIN px : px[i] = c})]
        below(c) == SumOver(count, {d \in colours : FracLess(Val(d), Val(c))})
        same(c) == SumOver(count, {d \in colours : Val(d) = Val(c)})
        at == CHOOSE c \in colours : below(c) <= k /\ k < below(c) + same(c)
    IN  Val(at)

\* np.percentile(field, q) with numpy's default linear interpolation: the
\* value at position q/100 * (n - 1) of the sorted field
Percentile(px, Val(_), q) ==
    LET n == Cardinality(DOMAIN px)
        pos == q * (n - 1)
        lo == pos \div 100
        f == pos % 100
        a == OrderStatistic(px, Val, lo)
        b == IF f = 0 THEN a ELSE OrderStatistic(px, Val, lo + 1)
    IN  Frac(a[1] * b[2] * (100 - f) + b[1] * a[2] * f, 100 * a[2] * b[2])

PercentileQ == 70

\* 0.05, the floor of the vegetation threshold
ExgFloor == <<1, 20>>

\* _compute_exg_mask with the comparison made inclusive
ComputeExgMaskInclusive(px) ==
    LET threshold == Percentile(px, ExG, PercentileQ)
        cut == FracMax(threshold, ExgFloor)
    IN  {i \in DOMAIN px : ~FracLess(ExG(px[i]), cut)}

\* _compute_exg_mask: exg > max(np.percentile(exg, 70), 0.05)
ComputeExgMask(px) ==
    LET threshold == Percentile(px, ExG, PercentileQ)
        cut == FracMax(threshold, ExgFloor)
    IN  {i \in DOMAIN px : FracLess(cut, ExG(px[i]))}

---------------------------------------------------------------------------
(* Morphology (OpenCV) on masks: a mask is the set of its pixel indices    *)
(* y * w + x in a w x h array.                                             *)

RoundSqrt(n) ==
    CHOOSE d \in 0..n : 4 * n < (2 * d + 1) * (2 * d + 1)
                        /\ (d = 0 \/ (2 * d - 1) * (2 * d - 1) < 4 * n)

\* cv2.getStructuringElement(cv2.MORPH_ELLIPSE, (k, k)) for odd k, as the
\* offsets from its centre: row dy holds the columns -dx..dx with
\* dx = round(c * sqrt((r*r - dy*dy) / (r*r))), r = c = k / 2
EllipseKernel(k) ==
    LET r == k \div 2
    IN  {o \in (-r..r) \X (-r..r) : Abs(o[1]) <= RoundSqrt(r * r - o[2] * o[2])}

\* cv2.erode, one iteration: a pixel stays when every kernel position that
\* falls inside the array is set (the border does not erode)
Erode1(mask, w, h, kernel) ==
    {i \in mask : \A o \in kernel :
        LET x == (i % w) + o[1]
            y == (i \div w) + o[2]
        IN  (0 <= x /\ x < w /\ 0 <= y /\ y < h) => (y * w + x) \in mask}

\* cv2.dilate, one iteration: every kernel position of a set pixel that
\* falls inside the array is set
Dilate1(mask, w, h, kernel) ==
    UNION {{((i \div w) + o[2]) * w + (i % w) + o[1] : o \in
                {q \in kernel : /\ 0 <= (i % w) + q[1] /\ (i % w) + q[1] < w
                                /\ 0 <= (i \div w) + q[2] /\ (i \div w) + q[2] < h}}
           : i \in mask}

RECURSIVE Erode(_, _, _, _, _)
Erode(mask, w, h, kernel, iterations) ==
    IF iterations = 0 THEN mask
    ELSE Erode(Erode1(mask, w, h, kernel), w, h, kernel, iterations - 1)

RECURSIVE Dilate(_, _, _, _, _)
Dilate(mask, w, h, kernel, iterations) ==
    IF iterations = 0 THEN mask
    ELSE Dilate(Dilate1(mask, w, h, kernel), w, h, kernel, iterations - 1)

---------------------------------------------------------------------------
(* Connected components *)

\* the neighbours of pixel i: the 4 edge neighbours, and with conn = 8 the
\* 4 diagonal ones as well
Neighbours(i, w, h, conn) ==
    LET x == i % w
        y == i \div w
        offs == IF conn = 8
                THEN {o \in (-1..1) \X (-1..1) : o # <<0, 0>>}
                ELSE {<<-1, 0>>, <<1, 0>>, <<0, -1>>, <<0, 1>>}
    IN  {(y + o[2]) * w + x + o[1] : o \in
            {q \in offs : /\ 0 <= x + q[1] /\ x + q[1] < w
                          /\ 0 <= y + q[2] /\ y + q[2] < h}}

\* one step of the breadth-first search over a mask: p is <<frontier, seen>>
BfsStep(p, mask, w, h, conn) ==
    Only({<<next, p[2] \cup next>>
          : next \in {(UNION {Neighbours(i, w, h, conn) : i \in p[1]} \cap mask) \ p[2]}})

BfsStep4(p, mask, w, h, conn) ==
    BfsStep(BfsStep(BfsStep(BfsStep(p, mask, w, h, conn), mask, w, h, conn),
                    mask, w, h, conn), mask, w, h, conn)

\* the pixels of the mask connected to the frontier, eight search steps at
\* a time until the frontier is empty
RECURSIVE Flood(_, _, _, _, _)
Flood(p, mask, w, h, conn) ==
    IF p[1] = {} THEN p[2]
    ELSE Flood(BfsStep4(BfsStep4(p, mask, w, h, conn), mask, w, h, conn),
               mask, w, h, conn)

\* The components of a mask as a sequence in label order.  Labels are
\* numbered in raster order of each component's first pixel, as
\* scipy.ndimage.label numbers them (cv2.connectedComponentsWithStats is
\* modelled with the same order).
RECURSIVE Components(_, _, _, _)
Components(mask, w, h, conn) ==
    IF mask = {} THEN <<>>
    ELSE Only({<<comp>> \o Components(mask \ comp, w, h, conn)
               : comp \in {Flood(<<{SetMin(mask)}, {SetMin(mask)}>>, mask, w, h, conn)}})

\* area, bounding box (inclusive) and coordinate sums of one component
ComponentStats(comp, w) ==
    LET xs == {i % w : i \in comp}
        ys == {i \div w : i \in comp}
        sx == SumOver([x \in xs |-> x * Cardinality({i \in comp : i % w = x})], xs)
        sy == SumOver([y \in ys |-> y * Cardinality({i \in comp : i \div w = y})], ys)
    IN  [area |-> Cardinality(comp),
         min_x |-> SetMin(xs), max_x |-> SetMax(xs),
         min_y |-> SetMin(ys), max_y |-> SetMax(ys),
         sum_x |-> sx, sum_y |-> sy]

---------------------------------------------------------------------------
(* Wide arithmetic: the z-score test needs products beyond 32 bits.  A     *)
(* wide number is five base-10000 limbs, least significant first.          *)

LimbBase == 100 * 100

WideNorm(l) ==
    LET c1 == l[1] \div LimbBase
        c2 == (l[2] + c1) \div LimbBase
        c3 == (l[3] + c2) \div LimbBase
        c4 == (l[4] + c3) \div LimbBase
    IN  <<l[1] % LimbBase, (l[2] + c1) % LimbBase, (l[3] + c2) % LimbBase,
          (l[4] + c3) % LimbBase, l[5] + c4>>

\* a * b for 0 <= a, b < 2 * 10^8
WideMul(a, b) ==
    LET a0 == a % LimbBase
        a1 == a \div LimbBase
        b0 == b % LimbBase
        b1 == b \div LimbBase
    IN  WideNorm(<<a0 * b0, a0 * b1 + a1 * b0, a1 * b1, 0, 0>>)

\* k * x for a small k
WideScale(k, x) == WideNorm([j \in 1..5 |-> k * x[j]])

WideAdd(x, y) == WideNorm([j \in 1..5 |-> x[j] + y[j]])

WideLess(x, y) ==
    \E j \in 1..5 : x[j] < y[j] /\ \A m \in (j + 1)..5 : x[m] = y[m]

---------------------------------------------------------------------------
(* Symptom classifier: pest_detector.py *)

ChlorosisHueMin == 20
ChlorosisHueMax == 40
ChlorosisSatFloor == 50
NecrosisHueMin == 10
NecrosisHueMax == 25
NecrosisSatFloor == 30
NecrosisValueCeiling == 150

\* a chlorosis test that reads the hue range in degrees of the full circle
\* (the H channel holds half degrees)
DetectChlorosisInDegrees(hsv, vegetation_mask) ==
    {i \in vegetation_mask : /\ 2 * hsv[i].h >= ChlorosisHueMin
                             /\ 2 * hsv[i].h <= ChlorosisHueMax
                             /\ hsv[i].s > ChlorosisSatFloor}

\* _detect_chlorosis: (h >= 20) & (h <= 40) & (s > 50) & vegetation_mask
DetectChlorosis(hsv, vegetation_mask) ==
    {i \in vegetation_mask : /\ hsv[i].h >= ChlorosisHueMin
                             /\ hsv[i].h <= ChlorosisHueMax
                             /\ hsv[i].s > ChlorosisSatFloor}

\* _detect_necrosis: (h >= 10) & (h <= 25) & (s > 30) & (v < 150) & vegetation_mask
DetectNecrosis(hsv, vegetation_mask) ==
    {i \in vegetation_mask : /\ hsv[i].h >= NecrosisHueMin
                             /\ hsv[i].h <= NecrosisHueMax
                             /\ hsv[i].s > NecrosisSatFloor
                             /\ hsv[i].v < NecrosisValueCeiling}

\* window_size of _detect_texture_anomalies; the box filter reaches
\* window_size // 2 pixels to each side
WindowSize == 51

BlurRadius == WindowSize \div 2

\* OpenCV's BORDER_REFLECT_101 (the default border of cv2.blur): position p
\* of an axis of length len, mirrored about the first and last pixel
Reflect101(p, len) ==
    IF len = 1 THEN 0
    ELSE LET m == 2 * (len - 1)
             q == ((p % m) + m) % m
         IN  IF q < len THEN q ELSE m - q

\* the positions of the 51 window taps around every position of an axis
WindowTaps(len) ==
    [p \in 0..(len - 1) |->
        [d \in 1..(2 * BlurRadius + 1) |-> Reflect101(p + d - BlurRadius - 1, len)]]

\* the sum of v over the 51 x 51 window around every pixel: cv2.blur(v,
\* (51, 51)) times the window's 2601 pixels, rows first and then columns
BoxSum(v, w, h) ==
    Only({Only({
        [i \in DOMAIN v |-> Sum([d \in DOMAIN ty[i \div w] |->
                                    rows[ty[i \div w][d] * w + (i % w)]])]
        : rows \in {[i \in DOMAIN v |-> Sum([d \in DOMAIN tx[i % w] |->
                                    v[(i \div w) * w + tx[i % w][d]]])]}})
        : tx \in {WindowTaps(w)}, ty \in {WindowTaps(h)}})

\* z_score > threshold for one pixel, with g its gray value, s1 and s2 the
\* window sums of gray and gray^2 and n the window's pixel count:
\* local_mean = s1 / n, local_std = sqrt(max(s2 / n - local_mean^2, 0)),
\* z = |g - local_mean| / (local_std + 1e-10).  With d = n g - s1 this is
\* d^2 td^2 > tn^2 (n s2 - s1^2) for threshold tn / td; a window of one gray
\* value has d = 0 and z = 0.
ZScoreExceeds(g, s1, s2, n, threshold) ==
    LET d == Abs(n * g - s1)
        tn2 == threshold[1] * threshold[1]
        td2 == threshold[2] * threshold[2]
    IN  WideLess(WideScale(tn2, WideMul(n, s2)),
                 WideAdd(WideScale(td2, WideMul(d, d)),
                         WideScale(tn2, WideMul(s1, s1))))

\* _detect_texture_anomalies: (z_score > threshold) & vegetation_mask
DetectTextureAnomalies(px, w, h, vegetation_mask, threshold) ==
    LET n == (2 * BlurRadius + 1) * (2 * BlurRadius + 1)
    IN  Only({Only({Only({
            {i \in vegetation_mask : ZScoreExceeds(gray[i], s1[i], s2[i], n, threshold)}
            : s2 \in {BoxSum([i \in DOMAIN px |-> gray[i] * gray[i]], w, h)}})
            : s1 \in {BoxSum(gray, w, h)}})
            : gray \in {[i \in DOMAIN px |-> RGB2GRAY(px[i])]}})

\* list.sort(key=area_pixels, reverse=True): descending by area, regions of
\* equal area keeping their order (Python's sort is stable)
RECURSIVE SortByAreaDesc(_)
SortByAreaDesc(regions) ==
    IF Len(regions) <= 1 THEN regions
    ELSE LET n == Len(regions)
             last == regions[n]
             front == SortByAreaDesc(SubSeq(regions, 1, n - 1))
             keep == Cardinality({k \in 1..(n - 1) :
                                    front[k].area_pixels >= last.area_pixels})
         IN  SubSeq(front, 1, keep) \o <<last>> \o SubSeq(front, keep + 1, n - 1)

\* for idx, reg in enumerate(regions): reg["id"] = idx + 1
Renumber(regions) == [k \in 1..Len(regions) |-> [regions[k] EXCEPT !.id = k]]

\* scipy.ndimage.label(mask) with its default structuring element, the
\* cross: components are 4-connected
NdimageLabelConnectivity == 4

\* _extract_regions: the components in label order, those below min_area
\* skipped, the loop left as soon as max_regions regions are collected;
\* then sorted by area and renumbered
ExtractRegions(mask, w, h, region_type, min_area, max_regions) ==
    LET comps == Components(mask, w, h, NdimageLabelConnectivity)
        stats == [k \in 1..Len(comps) |-> ComponentStats(comps[k], w)]
        big == SelectSeq(stats, LAMBDA st : st.area >= min_area)
        taken == IF Len(big) = 0 THEN 0 ELSE Min2(Len(big), Max2(max_regions, 1))
        regions == [k \in 1..taken |->
                      [id |-> k,
                       type |-> region_type,
                       center |-> <<IntDiv(big[k].sum_x, big[k].area),
                                    IntDiv(big[k].sum_y, big[k].area)>>,
                       area_pixels |-> big[k].area,
                       bbox |-> <<big[k].min_x, big[k].min_y,
                                  big[k].max_x, big[k].max_y>>]]
    IN  Renumber(SortByAreaDesc(regions))

\* a classification whose classes include their upper border
ClassifySeverityInclusive(infection_rate) ==
    IF infection_rate <= 500 THEN "saudavel"
    ELSE IF infection_rate <= 1500 THEN "leve"
    ELSE IF infection_rate <= 3000 THEN "moderado"
    ELSE "severo"

\* _classify_severity, the rate in hundredths of a percent
ClassifySeverity(infection_rate) ==
    IF infection_rate < 500 THEN "saudavel"
    ELSE IF infection_rate < 1500 THEN "leve"
    ELSE IF infection_rate < 3000 THEN "moderado"
    ELSE "severo"

\* _generate_recommendations, each text by the name of its subject
GenerateRecommendations(severity, chlorosis_pct, necrosis_pct, anomaly_pct) ==
    IF severity = "saudavel" THEN <<"manter_monitoramento">>
    ELSE (IF chlorosis_pct > 500 THEN <<"clorose">> ELSE <<>>)
         \o (IF necrosis_pct > 500 THEN <<"necrose">> ELSE <<>>)
         \o (IF anomaly_pct > 500 THEN <<"anomalias">> ELSE <<>>)
         \o <<IF severity = "severo" THEN "severidade_alta"
              ELSE IF severity = "moderado" THEN "severidade_moderada"
              ELSE "severidade_leve">>

\* if total_vegetation_pixels < 100: the zero result
MinVegetationPixels == 100

\* max_size of detect_pest_disease and of estimate_biomass
MaxSizeSymptom == 1500

\* max_per_type and the cap all_regions[:20]
MaxPerType == 7
MaxAffectedRegions == 20

\* overlap resolution, priority necrosis > chlorosis > anomaly:
\* anomaly_mask & ~chlorosis_mask & ~necrosis_mask, chlorosis_mask & ~necrosis_mask
ResolveAnomaly(anomaly, chlorosis, necrosis) == (anomaly \ chlorosis) \ necrosis

\* a resolution that leaves the necrotic pixels in the chlorosis mask
KeepChlorosis(chlorosis, necrosis) == chlorosis

ResolveChlorosis(chlorosis, necrosis) == chlorosis \ necrosis

\* a rate that forgets the texture anomalies
InfectionRateWithoutAnomaly(chlorosis_pct, necrosis_pct, anomaly_pct) ==
    chlorosis_pct + necrosis_pct

\* infection_rate = round(chlorosis_pct + necrosis_pct + anomaly_pct, 2)
InfectionRate(chlorosis_pct, necrosis_pct, anomaly_pct) ==
    chlorosis_pct + necrosis_pct + anomaly_pct

\* healthy_pct = round(max(100.0 - infection_rate, 0.0), 2)
HealthyPct(infection_rate) == Max2(10000 - infection_rate, 0)

\* the percentages, severity, regions and recommendations of
\* detect_pest_disease once the masks are resolved (steps 4 to 7)
SymptomResult(total, chlorosis_mask, necrosis_mask, anomaly_mask, chlorosis_regions, necrosis_regions, anomaly_regions, args) ==
    LET chlorosis_pct == RoundPct(Cardinality(chlorosis_mask), total)
        necrosis_pct == RoundPct(Cardinality(necrosis_mask), total)
        anomaly_pct == RoundPct(Cardinality(anomaly_mask), total)
        infection_rate == InfectionRate(chlorosis_pct, necrosis_pct, anomaly_pct)
        severity == ClassifySeverity(infection_rate)
        all_regions == chlorosis_regions \o necrosis_regions \o anomaly_regions
        sorted == SortByAreaDesc(all_regions)
    IN  [total_vegetation_pixels |-> total,
         healthy_percentage |-> HealthyPct(infection_rate),
         chlorosis_percentage |-> chlorosis_pct,
         necrosis_percentage |-> necrosis_pct,
         anomaly_percentage |-> anomaly_pct,
         overall_severity |-> severity,
         infection_rate |-> infection_rate,
         affected_regions |-> Renumber(SubSeq(sorted, 1, Min2(Len(sorted), MaxAffectedRegions))),
         recommendations |-> GenerateRecommendations(severity, chlorosis_pct,
                                                     necrosis_pct, anomaly_pct),
         parameters |-> [chlorosis_hue_range |-> <<ChlorosisHueMin, ChlorosisHueMax>>,
                         necrosis_hue_range |-> <<NecrosisHueMin, NecrosisHueMax>>,
                         anomaly_threshold |-> args.anomaly_threshold]]

\* the return value of detect_pest_disease when the vegetation mask has
\* fewer than 100 pixels
ZeroSymptomResult(total, args) ==
    [total_vegetation_pixels |-> total,
     healthy_percentage |-> 0,
     chlorosis_percentage |-> 0,
     necrosis_percentage |-> 0,
     anomaly_percentage |-> 0,
     overall_severity |-> "saudavel",
     infection_rate |-> 0,
     affected_regions |-> <<>>,
     recommendations |-> <<"vegetacao_insuficiente">>,
     parameters |-> [chlorosis_hue_range |-> <<ChlorosisHueMin, ChlorosisHueMax>>,
                     necrosis_hue_range |-> <<NecrosisHueMin, NecrosisHueMax>>,
                     anomaly_threshold |-> args.anomaly_threshold]]

---------------------------------------------------------------------------
(* Canopy counter: tree_counter.py *)

\* max_size of count_trees_by_segmentation
MaxSizeTrees == 2000

\* the cap of the returned list, trees[:100]
MaxListedTrees == 100

\* iterations of cv2.erode and cv2.dilate in count_trees_by_segmentation
TreeErodeIterations == 2
TreeDilateIterations == 1

\* the clamp of the automatic threshold, max(0.5, min(0.7, .))
TreeThresholdMin == <<1, 2>>
TreeThresholdMax == <<7, 10>>

\* exg = (exg + 1) / 2: the index normalised from [-1,1] to [0,1]
ExG01(c) == LET e == ExG(c) IN Frac(e[1] + e[2], 2 * e[2])

\* exg_threshold = None: no explicit threshold (the empty tuple, where an
\* explicit threshold is a fraction)
None == <<>>

\* the threshold in use if the percentile were taken as it is
TreeThresholdUnclamped(px, exg_threshold) ==
    IF exg_threshold = None THEN Percentile(px, ExG01, PercentileQ)
    ELSE exg_threshold

\* the threshold in use: the caller's, or the 70th percentile clamped
TreeThreshold(px, exg_threshold) ==
    IF exg_threshold = None
    THEN FracMax(TreeThresholdMin,
                 FracMin(TreeThresholdMax, Percentile(px, ExG01, PercentileQ)))
    ELSE exg_threshold

\* round(n / d, digits) half-to-even, as an integer in units of 10^-digits
RoundHalfEven(n, d) ==
    LET q == n \div d
        r == n % d
    IN  IF 2 * r > d THEN q + 1
        ELSE IF 2 * r < d THEN q
        ELSE IF q % 2 = 0 THEN q ELSE q + 1

\* an entry whose coordinates are divided by scale^2 as the area is
TreeEntryAreaScaled(st, scale, id) ==
    LET sn == scale[1] * scale[1]
        sd == scale[2] * scale[2]
        x == IntDiv(st.min_x * sd, sn)
        y == IntDiv(st.min_y * sd, sn)
        w == IntDiv((st.max_x - st.min_x + 1) * sd, sn)
        h == IntDiv((st.max_y - st.min_y + 1) * sd, sn)
    IN  [id |-> id,
         bbox |-> <<x, y, x + w, y + h>>,
         center |-> <<IntDiv(st.sum_x * sd, st.area * sn),
                      IntDiv(st.sum_y * sd, st.area * sn)>>,
         area_pixels |-> IntDiv(st.area * sd, sn),
         width |-> w,
         height |-> h]

\* one entry of trees for a component with statistics st (lines 102-126):
\* the coordinates divided by scale and the area by scale^2 when the image
\* was resized
TreeEntry(st, scale, id) ==
    LET sn == scale[1]
        sd == scale[2]
        x == IntDiv(st.min_x * sd, sn)
        y == IntDiv(st.min_y * sd, sn)
        w == IntDiv((st.max_x - st.min_x + 1) * sd, sn)
        h == IntDiv((st.max_y - st.min_y + 1) * sd, sn)
    IN  [id |-> id,
         bbox |-> <<x, y, x + w, y + h>>,
         center |-> <<IntDiv(st.sum_x * sd, st.area * sn),
                      IntDiv(st.sum_y * sd, st.area * sn)>>,
         area_pixels |-> IntDiv(st.area * sd * sd, sn * sn),
         width |-> w,
         height |-> h]

\* adjusted_min <= area <= adjusted_max with the bounds scaled by scale^2
TreeAreaAccepted(area, scale, min_tree_area, max_tree_area) ==
    /\ min_tree_area * scale[1] * scale[1] <= area * scale[2] * scale[2]
    /\ area * scale[2] * scale[2] <= max_tree_area * scale[1] * scale[1]

\* the body of count_trees_by_segmentation
\* total_trees taken from the list as it is returned
TotalTreesListed(trees) == Min2(Len(trees), MaxListedTrees)

\* 'total_trees': int(len(trees)), the list before trees[:100]
TotalTrees(trees) == Len(trees)

CountTreesBySegmentation(file, args) ==
    Only({Only({Only({Only({Only({
        LET scale == image.scale
            accepted == SelectSeq(stats, LAMBDA st :
                TreeAreaAccepted(st.area, scale, args.min_tree_area, args.max_tree_area))
            trees == [k \in 1..Len(accepted) |-> TreeEntry(accepted[k], scale, k)]
            areas == [k \in 1..Len(trees) |-> trees[k].area_pixels]
            total_tree_area == Sum(areas)
            total_pixels == file.w * file.h
        IN  [result |->
               [total_trees |-> TotalTrees(trees),
                total_tree_area_pixels |-> total_tree_area,
                coverage_percentage |->
                    IF total_pixels > 0 THEN RoundPct(total_tree_area, total_pixels) ELSE 0,
                avg_tree_area |->
                    IF Len(trees) > 0 THEN RoundHalfEven(10 * total_tree_area, Len(trees)) ELSE 0,
                min_tree_area |->
                    IF Len(trees) > 0 THEN SetMin({areas[k] : k \in DOMAIN areas}) ELSE 0,
                max_tree_area |->
                    IF Len(trees) > 0 THEN SetMax({areas[k] : k \in DOMAIN areas}) ELSE 0,
                trees |-> SubSeq(trees, 1, Min2(Len(trees), MaxListedTrees)),
                image_dimensions |-> [width |-> file.w, height |-> file.h],
                parameters |-> [exg_threshold |-> exg_threshold,
                                min_tree_area |-> args.min_tree_area,
                                max_tree_area |-> args.max_tree_area]],
             locals |->
               [w |-> image.w, h |-> image.h, scale |-> scale,
                exg |-> [i \in DOMAIN image.px |-> ExG01(image.px[i])],
                vegetation_mask |-> vegetation_mask,
                labeled_mask |-> processed]]
        : stats \in {LET comps == Components(processed, image.w, image.h, 8)
                     IN  [k \in 1..Len(comps) |-> ComponentStats(comps[k], image.w)]}})
        : processed \in {LET kernel == EllipseKernel(args.kernel_size)
                             eroded == Erode(vegetation_mask, image.w, image.h, kernel,
                                             TreeErodeIterations)
                         IN  Dilate(eroded, image.w, image.h, kernel, TreeDilateIterations)}})
        : vegetation_mask \in {{i \in DOMAIN image.px :
                                    FracLess(exg_threshold, ExG01(image.px[i]))}}})
        : exg_threshold \in {TreeThreshold(image.px, args.exg_threshold)}})
        : image \in {LoadImage(file, MaxSizeTrees)}})

---------------------------------------------------------------------------
(* Basic vegetation analysis: image_processing/analyzer.py.  A buffer is   *)
(* [w, h, px] with px indexed by y * w + x; an index field is a function   *)
(* over the same indices.                                                  *)

\* round(num / den, digits) as an integer count of 10^-digits, for num >= 0:
\* the quotient is carried out digit by digit, an exact half goes to the even
\* neighbour as Python's round does
RECURSIVE LongDiv(_, _, _, _)
LongDiv(q, r, den, digits) ==
    IF digits = 0 THEN <<q, r>>
    ELSE LongDiv(10 * q + (10 * r) \div den, (10 * r) % den, den, digits - 1)

RoundDecimals(num, den, digits) ==
    LET qr == LongDiv(num \div den, num % den, den, digits)
    IN  IF 2 * qr[2] > den THEN qr[1] + 1
        ELSE IF 2 * qr[2] < den THEN qr[1]
        ELSE IF qr[1] % 2 = 0 THEN qr[1] ELSE qr[1] + 1

RECURSIVE LcmOver(_)
LcmOver(S) ==
    IF S = {} THEN 1
    ELSE LET d == CHOOSE e \in S : TRUE
             l == LcmOver(S \ {d})
         IN  (l \div Gcd(l, d)) * d

FracSub(p, q) == Frac(p[1] * q[2] - q[1] * p[2], p[2] * q[2])

FracDiv(p, q) == Frac(p[1] * q[2], p[2] * q[1])

\* np.array(img) of an RGB image: the buffer [w, h, px]
ArrayOf(img) ==
    [w |-> img.w, h |-> img.h,
     px |-> [i \in 0..(img.w * img.h - 1) |-> PixelAt(img, i % img.w, i \div img.w)]]

FracLeastOf(S) == CHOOSE p \in S : \A q \in S : ~FracLess(q, p)

FracGreatestOf(S) == CHOOSE p \in S : \A q \in S : ~FracLess(p, q)

\* calculate_excess_green_index: exg = 2 g_norm - r_norm - b_norm with the
\* channels divided by their sum (a zero sum replaced by 1: index 0, as in
\* ExG), then (exg - exg.min()) / (exg.max() - exg.min() + 1e-6).  The field
\* holds the quotient without the 1e-6; the true value is that quotient
\* times range / (range + 1e-6), a factor just below 1, which is accounted
\* for where it decides: at Quantise.
CalculateExcessGreenIndex(buf) ==
    LET exg == [i \in DOMAIN buf.px |-> ExG(buf.px[i])]
        lo == FracLeastOf({exg[i] : i \in DOMAIN exg})
        hi == FracGreatestOf({exg[i] : i \in DOMAIN exg})
        range == FracSub(hi, lo)
    IN  [i \in DOMAIN exg |->
            IF range[1] = 0 THEN <<0, 1>> ELSE FracDiv(FracSub(exg[i], lo), range)]

\* calculate_green_leaf_index: (2g - r - b) / (2g + r + b), a zero
\* denominator replaced by 1
CalculateGreenLeafIndex(buf) ==
    [i \in DOMAIN buf.px |->
        LET c == buf.px[i]
            denominator == 2 * c[2] + c[1] + c[3]
        IN  IF denominator = 0 THEN <<0, 1>>
            ELSE Frac(2 * c[2] - c[1] - c[3], denominator)]

\* the default threshold of calculate_vegetation_coverage: 0.3
CoverageThreshold == <<3, 10>>

\* round(value, digits) half-to-even for a fraction num / den of either sign
RoundSigned(num, den, digits) ==
    IF num >= 0 THEN RoundDecimals(num, den, digits)
    ELSE -RoundDecimals(-num, den, digits)

\* the mean of a field of fractions, rounded to digits decimals
FieldMean(field, digits) ==
    LET lcm == LcmOver({field[i][2] : i \in DOMAIN field})
        values == {field[i] : i \in DOMAIN field}
        count == [v \in values |-> Cardinality({i \in DOMAIN field : field[i] = v})]
        pos == Sum([v \in {u \in values : u[1] >= 0} |->
                        count[v] * v[1] * (lcm \div v[2])])
        neg == Sum([v \in {u \in values : u[1] < 0} |->
                        count[v] * (-v[1]) * (lcm \div v[2])])
    IN  RoundSigned(pos - neg, lcm * Cardinality(DOMAIN field), digits)

\* calculate_vegetation_coverage: the share of pixels with exg > threshold,
\* percentages in hundredths
CalculateVegetationCoverage(buf, threshold) ==
    LET exg == CalculateExcessGreenIndex(buf)
        vegetation_mask == {i \in DOMAIN exg : FracLess(threshold, exg[i])}
        total_pixels == Cardinality(DOMAIN exg)
        vegetation_pixels == Cardinality(vegetation_mask)
    IN  [vegetation_percentage |-> RoundPct(vegetation_pixels, total_pixels),
         non_vegetation_percentage |->
            RoundPct(total_pixels - vegetation_pixels, total_pixels),
         total_pixels |-> total_pixels,
         vegetation_pixels |-> vegetation_pixels,
         threshold_used |-> threshold]

\* the class bounds of estimate_vegetation_health: 0.5, 0.25, 0.1
HealthyAbove == <<1, 2>>
ModerateAbove == <<1, 4>>
StressedAbove == <<1, 10>>

\* the weights of the classes in health_index
HealthyWeight == 100
ModerateWeight == 70
StressedWeight == 30

\* estimate_vegetation_health: percentages and health_index in tenths, the
\* means in thousandths
EstimateVegetationHealth(buf) ==
    LET exg == CalculateExcessGreenIndex(buf)
        gli == CalculateGreenLeafIndex(buf)
        healthy == Cardinality({i \in DOMAIN exg : FracLess(HealthyAbove, exg[i])})
        moderate == Cardinality({i \in DOMAIN exg :
                        FracLess(ModerateAbove, exg[i]) /\ ~FracLess(HealthyAbove, exg[i])})
        stressed == Cardinality({i \in DOMAIN exg :
                        FracLess(StressedAbove, exg[i]) /\ ~FracLess(ModerateAbove, exg[i])})
        non_veg == Cardinality({i \in DOMAIN exg : ~FracLess(StressedAbove, exg[i])})
        total == Cardinality(DOMAIN exg)
        vegetation == healthy + moderate + stressed
    IN  [health_index |->
            IF vegetation > 0
            THEN RoundDecimals(healthy * HealthyWeight + moderate * ModerateWeight
                               + stressed * StressedWeight, vegetation, 1)
            ELSE 0,
         healthy_percentage |-> RoundDecimals(100 * healthy, total, 1),
         moderate_percentage |-> RoundDecimals(100 * moderate, total, 1),
         stressed_percentage |-> RoundDecimals(100 * stressed, total, 1),
         non_vegetation_percentage |-> RoundDecimals(100 * non_veg, total, 1),
         vegetation_total_percentage |-> RoundDecimals(100 * vegetation, total, 1),
         mean_exg |-> FieldMean(exg, 3),
         mean_gli |-> FieldMean(gli, 3)]

\* (exg * 255).astype(np.uint8) of a value of the normalised field: the
\* integer part of 255 * quotient * range / (range + 1e-6); the factor just
\* below 1 takes an exact multiple of 1/255 down to the integer below
Quantise(q) ==
    LET whole == (255 * q[1]) \div q[2]
    IN  IF (255 * q[1]) % q[2] = 0 /\ whole > 0 THEN whole - 1 ELSE whole

\* arithmetic of numpy uint8 arrays wraps modulo 2^8
Uint8(n) == n % 256

\* the brown of the 'green' palette at index 0: R 139, B 69
BrownRed == 139
BrownBlue == 69

\* the pixel of generate_vegetation_heatmap for the quantised index v.
\* 'green' and 'jet' subtract uint8 arrays from an integer (uint8
\* arithmetic); the products by 0.5 and 0.3 are floats cut by astype
HeatmapPixel(colormap, v) ==
    IF colormap = "green"
    THEN <<Uint8(BrownRed - (v \div 2)), v, Uint8(BrownBlue - ((3 * v) \div 10))>>
    ELSE IF colormap = "jet"
    THEN <<Uint8(255 - v), v, 0>>
    ELSE <<(3 * v) \div 10, v, (2 * 255 - v) \div 2>>

\* generate_vegetation_heatmap: one RGB pixel per pixel of the buffer
GenerateVegetationHeatmap(buf, colormap) ==
    LET exg == CalculateExcessGreenIndex(buf)
    IN  [i \in DOMAIN exg |-> HeatmapPixel(colormap, Quantise(exg[i]))]

---------------------------------------------------------------------------
(* Biomass estimator: biomass_estimator.py *)

\* the 5 x 5 kernel and the iterations of the opening and the closing in
\* _segment_canopies
CanopyKernelSize == 5
CanopyOpenIterations == 2
CanopyCloseIterations == 1

\* max_canopies, the default of _segment_canopies
MaxCanopies == 20

\* one entry of patches (lines 65-77), ids by position
CanopyPatch(st, id) ==
    [id |-> id,
     center |-> <<IntDiv(st.sum_x, st.area), IntDiv(st.sum_y, st.area)>>,
     area_pixels |-> st.area,
     bbox |-> <<st.min_x, st.min_y,
                st.min_x + (st.max_x - st.min_x + 1),
                st.min_y + (st.max_y - st.min_y + 1)>>]

\* the patches kept of the sorted list: patches[:max_canopies]
TruncatePatches(sorted, max_canopies) ==
    SubSeq(sorted, 1, Min2(Len(sorted), Max2(max_canopies, 0)))

\* _segment_canopies: opening (2 iterations) and closing with the 5 x 5
\* ellipse, 8-connected components, those below min_canopy_area skipped,
\* sorted by area, cut to max_canopies and renumbered; total_area sums
\* every component that passed the area test
SegmentCanopies(vegetation_mask, w, h, min_canopy_area, max_canopies) ==
    Only({
        LET comps == Components(closed, w, h, 8)
            stats == [k \in 1..Len(comps) |-> ComponentStats(comps[k], w)]
            big == SelectSeq(stats, LAMBDA st : st.area >= min_canopy_area)
            patches == [k \in 1..Len(big) |-> CanopyPatch(big[k], k)]
            kept == Renumber(TruncatePatches(SortByAreaDesc(patches), max_canopies))
        IN  [patches |-> kept,
             total_area |-> Sum([k \in 1..Len(big) |-> big[k].area]),
             canopy_count |-> Len(kept),
             mask |-> closed]
        : closed \in {LET kernel == EllipseKernel(CanopyKernelSize)
                          opened == Dilate(Erode(vegetation_mask, w, h, kernel,
                                                 CanopyOpenIterations),
                                           w, h, kernel, CanopyOpenIterations)
                      IN  Erode(Dilate(opened, w, h, kernel, CanopyCloseIterations),
                                w, h, kernel, CanopyCloseIterations)}})

\* the vegetation mask must hold at least this many pixels for vigor metrics
MinVigorPixels == 10

\* _compute_vigor_metrics: mean of the green channel (hundredths), mean of
\* ExG (ten-thousandths) and variance of the grey level (hundredths) over
\* the vegetation mask; the variance is taken about the smallest grey level,
\* which does not change it
ComputeVigorMetrics(px, vegetation_mask) ==
    IF Cardinality(vegetation_mask) < MinVigorPixels
    THEN [mean_green_intensity |-> 0, mean_exg |-> 0, texture_variance |-> 0]
    ELSE LET n == Cardinality(vegetation_mask)
             colours == {px[i] : i \in vegetation_mask}
             count == [c \in colours |->
                          Cardinality({i \in vegetation_mask : px[i] = c})]
             sum_green == Sum([c \in colours |-> count[c] * c[2]])
             lcm == LcmOver({ExG(c)[2] : c \in colours})
             sum_exg == Sum([c \in colours |->
                                count[c] * ExG(c)[1] * (lcm \div ExG(c)[2])])
             base == SetMin({RGB2GRAY(c) : c \in colours})
             sum_d == Sum([c \in colours |-> count[c] * (RGB2GRAY(c) - base)])
             sum_d2 == Sum([c \in colours |->
                              count[c] * (RGB2GRAY(c) - base) * (RGB2GRAY(c) - base)])
         IN  [mean_green_intensity |-> RoundDecimals(sum_green, n, 2),
              mean_exg |-> RoundDecimals(sum_exg, lcm * n, 4),
              texture_variance |-> RoundDecimals(n * sum_d2 - sum_d * sum_d, n * n, 2)]

\* the weights of _compute_biomass_index, in percent
WeightCoverage == 40
WeightDensity == 30
WeightVigor == 15
WeightTexture == 15

\* the scales of the vigor and texture scores: 255.0 and 2000.0
VigorScale == 255
TextureScale == 2000

\* the weighted sum of _compute_biomass_index (lines 145-152) in hundredths:
\* 100 times the sum is whole + part / den, the four products split into
\* integer and fractional parts over their common denominator; the result is
\* round(min(max(biomass_index, 0.0), 100.0), 2).  The scores come in as the
\* quantities they are computed from: coverage, mean green and variance in
\* hundredths, density as the fraction <<area, pixels>>.
WeightedIndex(cov, dens, vig, tex) ==
    LET \* 100 * score * weight for each of the four scores, in lowest terms
        t1 == Frac(WeightCoverage * cov, 100)
        t2 == Frac(100 * WeightDensity * dens[1], dens[2])
        t3 == Frac(WeightVigor * vig, VigorScale)
        t4 == Frac(WeightTexture * tex, TextureScale)
        whole == t1[1] \div t1[2] + t2[1] \div t2[2] + t3[1] \div t3[2]
                 + t4[1] \div t4[2]
        den == LcmOver({t1[2], t2[2], t3[2], t4[2]})
        part == (t1[1] % t1[2]) * (den \div t1[2]) + (t2[1] % t2[2]) * (den \div t2[2])
                + (t3[1] % t3[2]) * (den \div t3[2]) + (t4[1] % t4[2]) * (den \div t4[2])
        index == whole + RoundDecimals(part, den, 0)
    IN  Min2(Max2(index, 0), 10000)

\* _compute_biomass_index with the texture score left without its cap
ComputeBiomassIndexTextureUncapped(vegetation_coverage_pct, canopy_density, vigor_green, texture_variance) ==
    WeightedIndex(Min2(vegetation_coverage_pct, 10000),
                  IF FracLess(<<1, 1>>, canopy_density) THEN <<1, 1>> ELSE canopy_density,
                  Min2(vigor_green, 100 * VigorScale),
                  texture_variance)

\* _compute_biomass_index, in hundredths: each score is min(.., 100.0)
ComputeBiomassIndex(vegetation_coverage_pct, canopy_density, vigor_green, texture_variance) ==
    WeightedIndex(Min2(vegetation_coverage_pct, 10000),
                  IF FracLess(<<1, 1>>, canopy_density) THEN <<1, 1>> ELSE canopy_density,
                  Min2(vigor_green, 100 * VigorScale),
                  Min2(texture_variance, 100 * TextureScale))

\* the bounds of the density classes of _classify_density
DensityModerate == 25
DensityDense == 50
DensityVeryDense == 75

\* _classify_density on an index in hundredths
ClassifyDensity(biomass_index) ==
    IF biomass_index < 100 * DensityModerate THEN "esparsa"
    ELSE IF biomass_index < 100 * DensityDense THEN "moderada"
    ELSE IF biomass_index < 100 * DensityVeryDense THEN "densa"
    ELSE "muito_densa"

\* min_kg and max_kg of _estimate_biomass_kg_ha
MinKgHa == 2000
MaxKgHa == 400000

\* _estimate_biomass_kg_ha with the scale starting at 0 instead of min_kg
EstimateBiomassKgHaFromZero(biomass_index) ==
    RoundDecimals(biomass_index * (MaxKgHa \div 100), 100, 0)

\* _estimate_biomass_kg_ha: round(min_kg + (biomass_index / 100.0) *
\* (max_kg - min_kg), 0) for an index in hundredths
EstimateBiomassKgHa(biomass_index) ==
    MinKgHa + RoundDecimals(biomass_index * ((MaxKgHa - MinKgHa) \div 100), 100, 0)

\* the coverage bounds of the second and third recommendation
LowCoveragePct == 30
GroundCoverPct == 10

\* _generate_recommendations of the biomass estimator, one token per sentence
BiomassRecommendations(biomass_index, density_class, vegetation_coverage_pct, canopy_count) ==
    <<density_class>>
    \o (IF vegetation_coverage_pct < 100 * LowCoveragePct
        THEN <<"cobertura_baixa">> ELSE <<>>)
    \o (IF canopy_count = 0 /\ vegetation_coverage_pct > 100 * GroundCoverPct
        THEN <<"sem_copas">> ELSE <<>>)

\* estimate_biomass; coverage in hundredths of a percent, avg_canopy_area in
\* hundredths of a pixel, biomass_index in hundredths, kg/ha in whole units
EstimateBiomass(file, args) ==
    Only({Only({
        LET total_pixels == image.w * image.h
            total_vegetation_pixels == Cardinality(vegetation_mask)
            vegetation_coverage_pct == RoundPct(total_vegetation_pixels, total_pixels)
        IN  IF total_vegetation_pixels < MinVegetationPixels
            THEN [result |->
                    [vegetation_coverage_pct |-> vegetation_coverage_pct,
                     canopy_count |-> 0,
                     total_canopy_area_pixels |-> 0,
                     avg_canopy_area |-> 0,
                     biomass_index |-> 0,
                     density_class |-> "esparsa",
                     estimated_biomass_kg_ha |-> 0,
                     canopy_patches |-> <<>>,
                     vigor_metrics |-> [mean_green_intensity |-> 0, mean_exg |-> 0,
                                        texture_variance |-> 0],
                     recommendations |-> <<"vegetacao_insuficiente">>,
                     parameters |-> [min_canopy_area |-> args.min_canopy_area]],
                  locals |-> [w |-> image.w, h |-> image.h, scale |-> image.scale,
                              vegetation_mask |-> vegetation_mask,
                              labeled_mask |-> {}]]
            ELSE Only({
                 LET vigor == ComputeVigorMetrics(image.px, vegetation_mask)
                     canopy_density == IF total_pixels > 0
                                       THEN <<seg.total_area, total_pixels>>
                                       ELSE <<0, 1>>
                     biomass_index == ComputeBiomassIndex(vegetation_coverage_pct,
                                          canopy_density, vigor.mean_green_intensity,
                                          vigor.texture_variance)
                     density_class == ClassifyDensity(biomass_index)
                 IN
                 [result |->
                    [vegetation_coverage_pct |-> vegetation_coverage_pct,
                     canopy_count |-> seg.canopy_count,
                     total_canopy_area_pixels |-> seg.total_area,
                     avg_canopy_area |->
                        IF seg.canopy_count > 0
                        THEN RoundHalfEven(100 * seg.total_area, seg.canopy_count)
                        ELSE 0,
                     biomass_index |-> biomass_index,
                     density_class |-> density_class,
                     estimated_biomass_kg_ha |-> EstimateBiomassKgHa(biomass_index),
                     canopy_patches |-> seg.patches,
                     vigor_metrics |-> vigor,
                     recommendations |-> BiomassRecommendations(biomass_index,
                                            density_class, vegetation_coverage_pct,
                                            seg.canopy_count),
                     parameters |-> [min_canopy_area |-> args.min_canopy_area]],
                  locals |-> [w |-> image.w, h |-> image.h, scale |-> image.scale,
                              vegetation_mask |-> vegetation_mask,
                              labeled_mask |-> seg.mask]]
                 : seg \in {SegmentCanopies(vegetation_mask, image.w, image.h,
                                            args.min_canopy_area, MaxCanopies)}})
        : vegetation_mask \in {ComputeExgMask(image.px)}})
        : image \in {LoadImage(file, MaxSizeSymptom)}})

\* the body of detect_pest_disease
DetectPestDisease(file, args) ==
    Only({Only({
        LET total_vegetation_pixels == Cardinality(vegetation_mask)
        IN  IF total_vegetation_pixels < MinVegetationPixels
            THEN [result |-> ZeroSymptomResult(total_vegetation_pixels, args),
                  locals |-> [w |-> image.w, h |-> image.h, scale |-> image.scale,
                              px |-> image.px,
                              vegetation_mask |-> vegetation_mask,
                              returned_early |-> TRUE]]
            ELSE Only({Only({Only({Only({Only({
                    [result |-> SymptomResult(total_vegetation_pixels, chlorosis_mask,
                                              necrosis, anomaly_mask, chlorosis_regions,
                                              necrosis_regions, anomaly_regions, args),
                     locals |-> [w |-> image.w, h |-> image.h, scale |-> image.scale,
                                 px |-> image.px,
                                 vegetation_mask |-> vegetation_mask,
                                 returned_early |-> FALSE,
                                 chlorosis_detected |-> chlorosis,
                                 anomaly_detected |-> anomaly,
                                 chlorosis_mask |-> chlorosis_mask,
                                 necrosis_mask |-> necrosis,
                                 anomaly_mask |-> anomaly_mask,
                                 chlorosis_regions |-> chlorosis_regions,
                                 necrosis_regions |-> necrosis_regions,
                                 anomaly_regions |-> anomaly_regions]]
                    : chlorosis_regions \in {ExtractRegions(chlorosis_mask, image.w, image.h,
                                                "chlorosis", args.min_region_area, MaxPerType)},
                      necrosis_regions \in {ExtractRegions(necrosis, image.w, image.h,
                                                "necrosis", args.min_region_area, MaxPerType)},
                      anomaly_regions \in {ExtractRegions(anomaly_mask, image.w, image.h,
                                                "anomaly", args.min_region_area, MaxPerType)}})
                    : anomaly_mask \in {ResolveAnomaly(anomaly, chlorosis, necrosis)},
                      chlorosis_mask \in {ResolveChlorosis(chlorosis, necrosis)}})
                    : anomaly \in {DetectTextureAnomalies(image.px, image.w, image.h,
                                        vegetation_mask, args.anomaly_threshold)}})
                    : necrosis \in {DetectNecrosis(hsv, vegetation_mask)},
                      chlorosis \in {DetectChlorosis(hsv, vegetation_mask)}})
                    : hsv \in {[i \in DOMAIN image.px |-> RGB2HSV(image.px[i])]}})
        : vegetation_mask \in {ComputeExgMask(image.px)}})
        : image \in {LoadImage(file, MaxSizeSymptom)}})

---------------------------------------------------------------------------
(* The images and calls analysed *)

Soil == <<90, 90, 90>>
Green == <<30, 120, 30>>
Chlorotic == <<150, 180, 30>>
Blighted == <<140, 120, 20>>
Necrotic == <<140, 100, 40>>
Bright == <<120, 255, 120>>
Vivid == <<20, 120, 30>>
RedSoil == <<120, 80, 60>>
Grass == <<100, 120, 80>>
PureGreen == <<0, 255, 0>>
Black == <<0, 0, 0>>
Magenta == <<255, 0, 255>>

\* canvas sizes of the small images
PlotWidth == 24
PlotHeight == 20
FieldWidth == 30
FieldHeight == 24
PatchWidth == 8
PatchHeight == 6

\* plots of 6, 12, 18, 36 and 48 pixels on soil
PlotImages ==
    {[w |-> PlotWidth, h |-> PlotHeight, bg |-> Soil,
      rects |-> <<<<1, 1, 3, 2, c1>>, <<6, 1, 9, 3, c2>>, <<12, 1, 17, 3, c3>>,
                  <<1, 8, 6, 13, c4>>, <<10, 8, 17, 13, Green>>>>]
     : c1 \in {Green, Chlorotic}, c2 \in {Green, Necrotic},
       c3 \in {Green, Blighted, Bright}, c4 \in {Green, Chlorotic}}

\* plots of 20, 20 and 80 pixels on soil
ThirdsImages ==
    {[w |-> PlotWidth, h |-> PlotHeight, bg |-> Soil,
      rects |-> <<<<1, 1, 4, 5, c1>>, <<6, 1, 9, 5, c2>>, <<1, 8, 10, 15, c3>>>>]
     : c1 \in {Green, Chlorotic}, c2 \in {Bright, Blighted}, c3 \in {Green, Necrotic}}

\* two canopies of 9 x 9 and 11 x 11 pixels, apart or touching at a corner
FieldImages ==
    {[w |-> FieldWidth, h |-> FieldHeight, bg |-> Soil,
      rects |-> <<<<2, 2, 10, 10, c1>>, <<x2, 11, x2 + 10, 21, c2>>>>]
     : c1 \in {Green, Chlorotic}, c2 \in {Green, Chlorotic}, x2 \in {11, 15}}

\* seven plots of 12 pixels in two rows above one of 20 pixels
RowImages ==
    {[w |-> PlotWidth, h |-> PlotHeight, bg |-> Soil,
      rects |-> <<<<1, 1, 4, 3, c1>>, <<6, 1, 9, 3, c1>>, <<11, 1, 14, 3, c1>>,
                  <<16, 1, 19, 3, c1>>, <<1, 5, 4, 7, c1>>, <<6, 5, 9, 7, c1>>,
                  <<11, 5, 14, 7, c1>>, <<1, 10, 4, 14, c2>>>>]
     : c1 \in {Green, Chlorotic}, c2 \in {Green, Chlorotic}}

\* up to three 2 x 2 plants, the first two touching at a corner
PatchImages ==
    {[w |-> PatchWidth, h |-> PatchHeight, bg |-> Soil,
      rects |-> <<<<1, 1, 2, 2, c1>>, <<3, 3, 4, 4, c2>>, <<6, 1, 7, 2, c3>>>>]
     : c1 \in {Soil, Green}, c2 \in {Soil, Green}, c3 \in {Soil, Chlorotic}}

\* a strip twice as long as the symptom head's size cap, above both caps:
\* four canopies spanning its height
StripImages ==
    {[w |-> 2 * MaxSizeSymptom, h |-> 3, bg |-> Soil,
      rects |-> <<<<120, 0, 179, 2, c1>>, <<600, 0, 659, 2, Green>>,
                  <<1200, 0, 1259, 2, Green>>, <<2400, 0, 2489, 2, Green>>>>]
     : c1 \in {Green, Chlorotic}}

\* a plot of saturated green, with and without a plain green neighbour, on
\* grey soil, on reddish soil (negative index) and on grass (index 0.2)
VividImages ==
    {[w |-> PatchWidth, h |-> PatchHeight, bg |-> ground,
      rects |-> <<<<1, 1, 3, 3, Vivid>>, <<5, 1, 6, 3, c2>>>>]
     : ground \in {Soil, RedSoil, Grass}, c2 \in {Soil, Green}}

\* a row of 2 x 2 trees, one more than the canopy counter lists
OrchardImage ==
    [w |-> 4 * (MaxListedTrees + 1) + 1, h |-> 3, bg |-> Soil,
     rects |-> [k \in 1..(MaxListedTrees + 1) |-> <<4 * k - 3, 0, 4 * k - 2, 1, Green>>]]

\* a row of canopies 10 pixels wide spanning the height of the image, one
\* more than the biomass estimator lists, on 29% of the pixels
CanopyRowImage ==
    [w |-> 34 * (MaxCanopies + 1), h |-> 3, bg |-> Soil,
     rects |-> [k \in 1..(MaxCanopies + 1) |-> <<34 * k - 22, 0, 34 * k - 13, 2, Green>>]]

Images ==
    PlotImages \cup ThirdsImages \cup FieldImages \cup RowImages \cup PatchImages
    \cup StripImages \cup VividImages

\* buffers handed to the functions of analyzer.py: one row of BufferPixels
\* pixels of these colours, described like an image file
BufferPixels == 3

BufferPalette == {Black, Soil, Green, Vivid, PureGreen, Magenta}

Buffers ==
    {[w |-> BufferPixels, h |-> 1, bg |-> Black,
      rects |-> [k \in 1..BufferPixels |-> <<k - 1, 0, k - 1, 0, p[k]>>]]
        : p \in [1..BufferPixels -> BufferPalette]}

\* the palettes of generate_vegetation_heatmap; any other name is drawn
\* like 'viridis'
Colormaps == {"green", "jet", "viridis"}

\* a square buffer filled with strong green
UniformSide == 200

UniformFile == [w |-> UniformSide, h |-> UniformSide, bg |-> Green, rects |-> <<>>]

\* arguments: the defaults of each head and a finer setting
TreeArgs ==
    {[min_tree_area |-> 50, max_tree_area |-> 15000, kernel_size |-> 5,
      exg_threshold |-> None],
     [min_tree_area |-> 4, max_tree_area |-> 15000, kernel_size |-> 1,
      exg_threshold |-> None]}

FineTreeArgs ==
    [min_tree_area |-> 10, max_tree_area |-> 15000, kernel_size |-> 5,
     exg_threshold |-> None]

\* explicit thresholds, inside and below the range of the automatic one
ThresholdTreeArgs ==
    {[min_tree_area |-> 4, max_tree_area |-> 15000, kernel_size |-> 1,
      exg_threshold |-> t] : t \in {<<3, 5>>, <<2, 5>>}}

SymptomArgs == [anomaly_threshold |-> <<2, 1>>, min_region_area |-> 100]

FineSymptomArgs == [anomaly_threshold |-> <<2, 1>>, min_region_area |-> 10]

BiomassArgs == [min_canopy_area |-> 50]

FineBiomassArgs == [min_canopy_area |-> 10]

\* arguments of _compute_biomass_index as estimate_biomass can pass them:
\* coverage 0..100 and mean green 0..255 in hundredths, density a fraction
\* of the image, grey-level variance in hundredths (above the cap of 2000
\* for the last value)
IndexCoverages == {0, 2500, 5000, 9999, 10000}
IndexDensities == {<<0, 1>>, <<1, 4>>, <<1, 2>>, <<1, 1>>}
IndexVigors == {0, 8300, 12000, 25500}
IndexTextures == {0, 50025, 200000, 250000}

IndexCalls ==
    {[fn |-> "_compute_biomass_index",
      args |-> [vegetation_coverage_pct |-> c, canopy_density |-> d,
                vigor_green |-> v, texture_variance |-> t]]
        : c \in IndexCoverages, d \in IndexDensities, v \in IndexVigors,
          t \in IndexTextures}

Calls ==
    {[fn |-> "count_trees_by_segmentation", file |-> f, args |-> a]
        : f \in Images, a \in TreeArgs}
    \cup {[fn |-> "count_trees_by_segmentation", file |-> f, args |-> FineTreeArgs]
        : f \in FieldImages}
    \cup {[fn |-> "count_trees_by_segmentation", file |-> f, args |-> a]
        : f \in ThirdsImages \cup VividImages, a \in ThresholdTreeArgs}
    \cup {[fn |-> "count_trees_by_segmentation", file |-> OrchardImage,
           args |-> [min_tree_area |-> 4, max_tree_area |-> 15000, kernel_size |-> 1,
                     exg_threshold |-> None]]}
    \cup {[fn |-> "detect_pest_disease", file |-> f, args |-> SymptomArgs]
        : f \in Images}
    \cup {[fn |-> "detect_pest_disease", file |-> f, args |-> FineSymptomArgs]
        : f \in ThirdsImages \cup FieldImages \cup RowImages \cup StripImages}
    \cup {[fn |-> "estimate_biomass", file |-> f, args |-> BiomassArgs]
        : f \in Images}
    \cup {[fn |-> "estimate_biomass", file |-> f, args |-> FineBiomassArgs]
        : f \in FieldImages \cup StripImages \cup {CanopyRowImage}}
    \cup {[fn |-> "estimate_biomass", file |-> UniformFile, args |-> BiomassArgs]}
    \cup IndexCalls
    \cup {[fn |-> f, image |-> b]
        : f \in {"calculate_excess_green_index", "calculate_green_leaf_index"},
          b \in Buffers}
    \cup {[fn |-> "calculate_vegetation_coverage", image |-> b,
           threshold |-> CoverageThreshold] : b \in Buffers \cup {UniformFile}}
    \cup {[fn |-> "estimate_vegetation_health", image |-> b]
        : b \in Buffers \cup {UniformFile}}
    \cup {[fn |-> "detect_pest_disease", file |-> UniformFile, args |-> SymptomArgs]}
    \cup {[fn |-> "generate_vegetation_heatmap", image |-> b, colormap |-> c]
        : b \in Buffers, c \in Colormaps}

---------------------------------------------------------------------------
(* The engine: one call of a head on an image *)

NoLocals == [w |-> 0, h |-> 0]

Init ==
    /\ input \in Calls
    /\ output = "none"
    /\ locals = NoLocals
    /\ pc = "called"

CountTrees ==
    /\ input.fn = "count_trees_by_segmentation"
    /\ pc = "called"
    /\ \E r \in {CountTreesBySegmentation(input.file, input.args)} :
        /\ output' = r.result
        /\ locals' = r.locals
    /\ pc' = "returned"
    /\ UNCHANGED input

DetectPests ==
    /\ input.fn = "detect_pest_disease"
    /\ pc = "called"
    /\ \E r \in {DetectPestDisease(input.file, input.args)} :
        /\ output' = r.result
        /\ locals' = r.locals
    /\ pc' = "returned"
    /\ UNCHANGED input

EstimateBiomassCall ==
    /\ input.fn = "estimate_biomass"
    /\ pc = "called"
    /\ \E r \in {EstimateBiomass(input.file, input.args)} :
        /\ output' = r.result
        /\ locals' = r.locals
    /\ pc' = "returned"
    /\ UNCHANGED input

ComputeBiomassIndexCall ==
    /\ input.fn = "_compute_biomass_index"
    /\ pc = "called"
    /\ output' = ComputeBiomassIndex(input.args.vegetation_coverage_pct,
                                      input.args.canopy_density,
                                      input.args.vigor_green,
                                      input.args.texture_variance)
    /\ pc' = "returned"
    /\ UNCHANGED <<input, locals>>

CalculateExcessGreenIndexCall ==
    /\ input.fn = "calculate_excess_green_index"
    /\ pc = "called"
    /\ output' = CalculateExcessGreenIndex(ArrayOf(input.image))
    /\ pc' = "returned"
    /\ UNCHANGED <<input, locals>>

CalculateGreenLeafIndexCall ==
    /\ input.fn = "calculate_green_leaf_index"
    /\ pc = "called"
    /\ output' = CalculateGreenLeafIndex(ArrayOf(input.image))
    /\ pc' = "returned"
    /\ UNCHANGED <<input, locals>>

CalculateVegetationCoverageCall ==
    /\ input.fn = "calculate_vegetation_coverage"
    /\ pc = "called"
    /\ output' = CalculateVegetationCoverage(ArrayOf(input.image), input.threshold)
    /\ pc' = "returned"
    /\ UNCHANGED <<input, locals>>

EstimateVegetationHealthCall ==
    /\ input.fn = "estimate_vegetation_health"
    /\ pc = "called"
    /\ output' = EstimateVegetationHealth(ArrayOf(input.image))
    /\ pc' = "returned"
    /\ UNCHANGED <<input, locals>>

GenerateVegetationHeatmapCall ==
    /\ input.fn = "generate_vegetation_heatmap"
    /\ pc = "called"
    /\ output' = GenerateVegetationHeatmap(ArrayOf(input.image), input.colormap)
    /\ pc' = "returned"
    /\ UNCHANGED <<input, locals>>

Next ==
    \/ CalculateExcessGreenIndexCall
    \/ GenerateVegetationHeatmapCall
    \/ CalculateGreenLeafIndexCall
    \/ CalculateVegetationCoverageCall
    \/ EstimateVegetationHealthCall
    \/ CountTrees
    \/ DetectPests
    \/ EstimateBiomassCall
    \/ ComputeBiomassIndexCall

Spec == Init /\ [][Next]_vars

---------------------------------------------------------------------------
(* Properties of the heads *)

SymptomReturned == pc = "returned" /\ input.fn = "detect_pest_disease"

TreesReturned == pc = "returned" /\ input.fn = "count_trees_by_segmentation"

BiomassReturned == pc = "returned" /\ input.fn = "estimate_biomass"

\* one of the three heads has returned
HeadReturned == SymptomReturned \/ TreesReturned \/ BiomassReturned

\* the symptom head went past the vegetation test
SymptomAnalysed == SymptomReturned /\ ~locals.returned_early

\* the region list a head returned
RegionList ==
    IF input.fn = "count_trees_by_segmentation" THEN output.trees
    ELSE IF input.fn = "detect_pest_disease" THEN output.affected_regions
    ELSE output.canopy_patches

\* the statistics of the components of a mask, as a set
StatsOf(mask, conn) ==
    UNION {{ComponentStats(cs[k], locals.w) : k \in DOMAIN cs}
              : cs \in {Components(mask, locals.w, locals.h, conn)}}

\* region r of a result is the component with statistics st, in the
\* coordinates of the analysed array
IsComponent(r, st) ==
    /\ r.area_pixels = st.area
    /\ r.bbox[1] = st.min_x
    /\ r.bbox[2] = st.min_y

\* region r of a result is the component with statistics st brought back to
\* the resolution of the file: coordinates divided by scale, area by scale^2
IsComponentRescaled(r, st, scale) ==
    /\ r.area_pixels = IntDiv(st.area * scale[2] * scale[2], scale[1] * scale[1])
    /\ r.bbox[1] = IntDiv(st.min_x * scale[2], scale[1])
    /\ r.bbox[2] = IntDiv(st.min_y * scale[2], scale[1])
    /\ r.center[1] = IntDiv(st.sum_x * scale[2], st.area * scale[1])
    /\ r.center[2] = IntDiv(st.sum_y * scale[2], st.area * scale[1])

\* the mask a region of the symptom head was extracted from
MaskOfType(type) ==
    IF type = "chlorosis" THEN locals.chlorosis_mask
    ELSE IF type = "necrosis" THEN locals.necrosis_mask
    ELSE locals.anomaly_mask

SymptomTypes == {"chlorosis", "necrosis", "anomaly"}

\* C1: with at least 100 vegetation pixels the four percentages of the
\* symptom head sum to 100 up to the rounding of the terms to two decimals
\* (one hundredth); with fewer the head returns the zero result: the four
\* percentages and infection_rate 0, severity 'saudavel', no regions and
\* exactly one recommendation.
PercentagesSumTo100 ==
    SymptomReturned =>
        IF Cardinality(locals.vegetation_mask) >= 100
        THEN Abs(output.healthy_percentage + output.chlorosis_percentage
                 + output.necrosis_percentage + output.anomaly_percentage - 10000) <= 1
        ELSE /\ output.healthy_percentage = 0
             /\ output.chlorosis_percentage = 0
             /\ output.necrosis_percentage = 0
             /\ output.anomaly_percentage = 0
             /\ output.infection_rate = 0
             /\ output.overall_severity = "saudavel"
             /\ output.affected_regions = <<>>
             /\ Len(output.recommendations) = 1

\* a result with all three symptoms present whose terms do not divide evenly
PercentagesSumTo100Witness ==
    /\ SymptomReturned
    /\ Cardinality(locals.vegetation_mask) >= 100
    /\ output.chlorosis_percentage > 0
    /\ output.necrosis_percentage > 0
    /\ output.anomaly_percentage > 0
    /\ output.chlorosis_percentage % 100 # 0

\* C2: after overlap resolution the three symptom masks are pairwise
\* disjoint and inside the vegetation mask; a pixel that passed several
\* tests stays only in the category of highest priority (necrosis, then
\* chlorosis, then anomaly), and the percentages count these masks.
SymptomMasksDisjoint ==
    SymptomAnalysed =>
        /\ locals.necrosis_mask \cap locals.chlorosis_mask = {}
        /\ locals.necrosis_mask \cap locals.anomaly_mask = {}
        /\ locals.chlorosis_mask \cap locals.anomaly_mask = {}
        /\ (locals.necrosis_mask \cup locals.chlorosis_mask \cup locals.anomaly_mask)
                \subseteq locals.vegetation_mask
        /\ locals.chlorosis_mask = locals.chlorosis_detected \ locals.necrosis_mask
        /\ locals.anomaly_mask =
                locals.anomaly_detected \ (locals.chlorosis_detected \cup locals.necrosis_mask)
        /\ output.chlorosis_percentage =
                RoundPct(Cardinality(locals.chlorosis_mask), output.total_vegetation_pixels)
        /\ output.necrosis_percentage =
                RoundPct(Cardinality(locals.necrosis_mask), output.total_vegetation_pixels)
        /\ output.anomaly_percentage =
                RoundPct(Cardinality(locals.anomaly_mask), output.total_vegetation_pixels)

\* pixels passed the chlorosis and the necrosis test together
SymptomMasksDisjointWitness ==
    /\ SymptomAnalysed
    /\ locals.chlorosis_detected \cap locals.necrosis_mask # {}
    /\ locals.chlorosis_mask # {}

\* C3: _extract_regions returns the max_regions largest of the components
\* that pass the area bound, sorted by area descending and numbered 1..N:
\* no qualifying component larger than a returned region is left out.
\* Stated of the three lists the symptom head extracts (max_regions = 7).
LargestRegionsKept ==
    SymptomAnalysed =>
        \A type \in SymptomTypes :
            \A regions \in {IF type = "chlorosis" THEN locals.chlorosis_regions
                            ELSE IF type = "necrosis" THEN locals.necrosis_regions
                            ELSE locals.anomaly_regions} :
            \A qualifying \in {{st \in StatsOf(MaskOfType(type), NdimageLabelConnectivity) :
                                    st.area >= input.args.min_region_area}} :
                /\ Len(regions) = Min2(Cardinality(qualifying), 7)
                /\ \A k \in DOMAIN regions :
                    /\ regions[k].id = k
                    /\ k > 1 => regions[k - 1].area_pixels >= regions[k].area_pixels
                    /\ \E st \in qualifying : IsComponent(regions[k], st)
                /\ \A st \in qualifying :
                    (\E k \in DOMAIN regions : st.area > regions[k].area_pixels)
                        => \E k \in DOMAIN regions : IsComponent(regions[k], st)

\* C4: labelling is 8-connected in every head: mask pixels that touch at a
\* corner belong to one region, so each region a head reports is a whole
\* 8-connected component of the mask it labelled (stated for the calls
\* analysed at the resolution of the file).
RegionsAreEightConnected ==
    (HeadReturned /\ locals.scale = <<1, 1>>) =>
        \A k \in DOMAIN RegionList :
            \E st \in StatsOf(IF input.fn = "detect_pest_disease"
                              THEN MaskOfType(RegionList[k].type)
                              ELSE locals.labeled_mask, 8) :
                IsComponent(RegionList[k], st)

\* C5: when a head analyses a downscaled copy, each region it reports is
\* brought back to the resolution of the file: center and bbox divided by
\* the scale factor, area_pixels by its square.
RegionsInOriginalPixels ==
    (HeadReturned /\ locals.scale # <<1, 1>>) =>
        \A k \in DOMAIN RegionList :
            \E st \in StatsOf(IF input.fn = "detect_pest_disease"
                              THEN MaskOfType(RegionList[k].type)
                              ELSE locals.labeled_mask,
                              IF input.fn = "detect_pest_disease"
                              THEN NdimageLabelConnectivity ELSE 8) :
                IsComponentRescaled(RegionList[k], st, locals.scale)

\* C6: in the region list of each head the ids are 1..N in list order and
\* area_pixels never increases with the id.
RegionsSortedByArea ==
    HeadReturned =>
        \A k \in DOMAIN RegionList :
            /\ RegionList[k].id = k
            /\ k > 1 => RegionList[k - 1].area_pixels >= RegionList[k].area_pixels

\* C7: every region a head reports has an area of at most the pixel count
\* of the file and a bbox inside the file: 0 <= x_min <= x_max <= width,
\* 0 <= y_min <= y_max <= height.
RegionsInsideImage ==
    HeadReturned =>
        \A k \in DOMAIN RegionList :
            /\ RegionList[k].area_pixels <= input.file.w * input.file.h
            /\ 0 <= RegionList[k].bbox[1]
            /\ RegionList[k].bbox[1] <= RegionList[k].bbox[3]
            /\ RegionList[k].bbox[3] <= input.file.w
            /\ 0 <= RegionList[k].bbox[2]
            /\ RegionList[k].bbox[2] <= RegionList[k].bbox[4]
            /\ RegionList[k].bbox[4] <= input.file.h

\* the canopy counter reports trees it found on a downscaled copy
RegionsInsideImageWitness ==
    /\ TreesReturned
    /\ locals.scale # <<1, 1>>
    /\ Len(output.trees) >= 2

\* C8: every percentage a head reports lies in [0, 100].
PercentagesInRange ==
    /\ SymptomReturned =>
        \A pct \in {output.chlorosis_percentage, output.necrosis_percentage,
                    output.anomaly_percentage, output.healthy_percentage,
                    output.infection_rate} : 0 <= pct /\ pct <= 10000
    /\ BiomassReturned =>
        0 <= output.vegetation_coverage_pct /\ output.vegetation_coverage_pct <= 10000
    /\ TreesReturned =>
        0 <= output.coverage_percentage /\ output.coverage_percentage <= 10000

\* C9 as written: a vegetation pixel is flagged as chlorosis exactly when
\* its hue lies in [20, 40] degrees of the 0-360 circle and its saturation
\* is above the floor, and as necrosis exactly when its hue lies in [10, 25]
\* degrees, its saturation is above the floor and its value below the
\* ceiling.
SymptomHuesInDegrees ==
    SymptomAnalysed =>
        \A i \in locals.vegetation_mask :
            \A hsv \in {RGB2HSV(locals.px[i])} :
                /\ i \in locals.chlorosis_detected <=>
                    (HueDegreesIn(locals.px[i], 20, 40) /\ hsv.s > ChlorosisSatFloor)
                /\ i \in locals.necrosis_mask <=>
                    (/\ HueDegreesIn(locals.px[i], 10, 25)
                     /\ hsv.s > NecrosisSatFloor
                     /\ hsv.v < NecrosisValueCeiling)

\* C9: a pixel is flagged as chlorosis exactly when it is in the
\* vegetation mask, its hue channel H of OpenCV's 8-bit HSV (half degrees,
\* 0..179) lies in [20, 40], that is about 40 to 80 degrees, and S > 50; as
\* necrosis exactly when it is in the vegetation mask, H lies in [10, 25],
\* about 20 to 50 degrees, S > 30 and V < 150.
SymptomHuesInHalfDegrees ==
    SymptomAnalysed =>
        \A i \in DOMAIN locals.px :
            \A hsv \in {RGB2HSV(locals.px[i])} :
                /\ i \in locals.chlorosis_detected <=>
                    (/\ i \in locals.vegetation_mask
                     /\ 20 <= hsv.h /\ hsv.h <= 40
                     /\ hsv.s > 50)
                /\ i \in locals.necrosis_mask <=>
                    (/\ i \in locals.vegetation_mask
                     /\ 10 <= hsv.h /\ hsv.h <= 25
                     /\ hsv.s > 30
                     /\ hsv.v < 150)

\* a pixel flagged as chlorosis whose hue in degrees is above 40, next to a
\* vegetation pixel of hue between 20 and 40 degrees that is not flagged
SymptomHuesInHalfDegreesWitness ==
    /\ SymptomAnalysed
    /\ \E i \in locals.chlorosis_detected : ~HueDegreesIn(locals.px[i], 0, 40)
    /\ \E i \in locals.vegetation_mask \ locals.chlorosis_detected :
            /\ HueDegreesIn(locals.px[i], 20, 40)
            /\ RGB2HSV(locals.px[i]).s > 50

\* C10: overall_severity follows from the reported infection_rate alone:
\* below 5 'saudavel', from 5 to below 15 'leve', from 15 to below 30
\* 'moderado', 30 and above 'severo'.
SeverityFollowsRate ==
    SymptomReturned =>
        output.overall_severity =
            CASE output.infection_rate < 500 -> "saudavel"
              [] output.infection_rate >= 500 /\ output.infection_rate < 1500 -> "leve"
              [] output.infection_rate >= 1500 /\ output.infection_rate < 3000 -> "moderado"
              [] output.infection_rate >= 3000 -> "severo"

\* a result at a class border: exactly 15 percent is 'moderado'
SeverityFollowsRateWitness ==
    /\ SymptomAnalysed
    /\ output.infection_rate = 1500
    /\ output.overall_severity = "moderado"

---------------------------------------------------------------------------
(* Properties of the biomass estimator *)

IndexReturned == pc = "returned" /\ input.fn = "_compute_biomass_index"

\* the biomass head went past the vegetation test
BiomassAnalysed ==
    BiomassReturned /\ Cardinality(locals.vegetation_mask) >= MinVegetationPixels

\* C11: biomass_index is 0.40 coverage + 0.30 density + 0.15 vigor + 0.15
\* texture with density = 100 canopy area / image area, vigor = 100 mean
\* green / 255, texture = 100 variance / 2000, each clamped to [0,100],
\* rounded to two decimals; it lies in [0,100] and does not decrease when
\* the coverage grows with the other inputs fixed; estimate_biomass reports
\* the index of its own coverage, canopy area, mean green and variance.
\* (27200 times the index in hundredths is 10880 cov + 3000 * 27200 dens +
\* 1600 vigor + 204 texture for densities in quarters.)
BiomassIndexIsWeightedSum ==
    /\ IndexReturned =>
        LET a == input.args
            cov == Max2(0, Min2(a.vegetation_coverage_pct, 10000))
            quarters == Max2(0, Min2((4 * a.canopy_density[1]) \div a.canopy_density[2], 4))
            vig == Max2(0, Min2(a.vigor_green, 25500))
            tex == Max2(0, Min2(a.texture_variance, 200000))
            exact == 10880 * cov + 20400000 * quarters + 1600 * vig + 204 * tex
        IN  /\ 2 * Abs(27200 * output - exact) <= 27200
            /\ 0 <= output /\ output <= 10000
            /\ \A c \in IndexCoverages :
                c >= a.vegetation_coverage_pct =>
                    ComputeBiomassIndex(c, a.canopy_density, a.vigor_green,
                                        a.texture_variance) >= output
    /\ BiomassAnalysed =>
        /\ output.biomass_index =
              ComputeBiomassIndex(output.vegetation_coverage_pct,
                                  <<output.total_canopy_area_pixels, locals.w * locals.h>>,
                                  output.vigor_metrics.mean_green_intensity,
                                  output.vigor_metrics.texture_variance)
        /\ 0 <= output.biomass_index /\ output.biomass_index <= 10000

\* a call whose texture score is capped and whose coverage can still grow
BiomassIndexIsWeightedSumWitness ==
    /\ IndexReturned
    /\ input.args.texture_variance > 200000
    /\ input.args.vegetation_coverage_pct = 5000
    /\ input.args.canopy_density = <<1, 4>>
    /\ input.args.vigor_green = 12000
    /\ output = 2000 + 750 + 706 + 1500

\* estimated_biomass_kg_ha is the interpolation of the reported index:
\* within half a unit of 2000 + index * 3980 (index in hundredths: five
\* times the difference to 2000 is within 2.5 of 199 index)
KgHaInterpolates(result) ==
    2 * Abs(5 * (result.estimated_biomass_kg_ha - 2000) - 199 * result.biomass_index) <= 5

\* C12 as written: in every result of estimate_biomass the kg/ha figure is
\* the linear interpolation of the reported biomass_index between 2,000 and
\* 400,000, rounded to a whole number.
KgHaInterpolatesInEveryResult ==
    BiomassReturned => KgHaInterpolates(output)

\* C12: in every result of estimate_biomass for a vegetation mask of at least
\* 100 pixels the kg/ha figure is the linear interpolation of the reported
\* biomass_index between 2,000 and 400,000, rounded to a whole number; the
\* result for a smaller mask reports index 0 and 0 kg/ha.
KgHaInterpolatesWhenAnalysed ==
    /\ BiomassAnalysed => KgHaInterpolates(output)
    /\ (BiomassReturned /\ ~BiomassAnalysed) =>
        output.biomass_index = 0 /\ output.estimated_biomass_kg_ha = 0

\* an analysed image with canopies, whose figure lies inside the scale
KgHaInterpolatesWhenAnalysedWitness ==
    /\ BiomassAnalysed
    /\ output.canopy_count > 0
    /\ output.biomass_index > 1000
    /\ output.estimated_biomass_kg_ha > 2000 + 39800
    /\ output.estimated_biomass_kg_ha < 400000

\* C13: with fewer than 100 vegetation pixels estimate_biomass returns a full
\* result whose numeric metrics are all zero (coverage, canopy count and
\* areas, index, kg/ha, the three vigor metrics), with density_class
\* 'esparsa', no canopy patches and exactly one recommendation.
BiomassZeroResult ==
    (BiomassReturned /\ Cardinality(locals.vegetation_mask) < MinVegetationPixels) =>
        /\ output.vegetation_coverage_pct = 0
        /\ output.canopy_count = 0
        /\ output.total_canopy_area_pixels = 0
        /\ output.avg_canopy_area = 0
        /\ output.biomass_index = 0
        /\ output.estimated_biomass_kg_ha = 0
        /\ output.vigor_metrics.mean_green_intensity = 0
        /\ output.vigor_metrics.mean_exg = 0
        /\ output.vigor_metrics.texture_variance = 0
        /\ output.density_class = "esparsa"
        /\ output.canopy_patches = <<>>
        /\ Len(output.recommendations) = 1

---------------------------------------------------------------------------
(* Properties of the index fields *)

\* a field has one value per pixel of a w x h array, each in [lo, hi]
FieldWithin(field, w, h, lo, hi) ==
    /\ DOMAIN field = 0..(w * h - 1)
    /\ \A i \in DOMAIN field :
        ~FracLess(field[i], lo) /\ ~FracLess(hi, field[i])

\* C14: every Excess-Green field has the size of the buffer and values in
\* [0,1] (the min-max normalised field of calculate_excess_green_index and
\* the (ExG + 1) / 2 field the canopy counter thresholds), and the GLI field
\* has values in [-1,1].
IndexFieldsInRange ==
    /\ (pc = "returned" /\ input.fn = "calculate_excess_green_index") =>
        FieldWithin(output, input.image.w, input.image.h, <<0, 1>>, <<1, 1>>)
    /\ (pc = "returned" /\ input.fn = "calculate_green_leaf_index") =>
        FieldWithin(output, input.image.w, input.image.h, <<-1, 1>>, <<1, 1>>)
    /\ TreesReturned =>
        FieldWithin(locals.exg, locals.w, locals.h, <<0, 1>>, <<1, 1>>)

\* C15: on a 200 x 200 buffer of uniform RGB (30,120,30)
\* calculate_vegetation_coverage reports more than 90 % vegetation,
\* estimate_vegetation_health finds it healthy (most pixels in the healthy
\* class, health_index at least 70) and detect_pest_disease reports an
\* infection_rate near 0 (at most 1 %).
UniformGreenIsHealthy ==
    /\ (pc = "returned" /\ input.fn = "calculate_vegetation_coverage"
            /\ input.image = UniformFile) =>
        output.vegetation_percentage > 9000
    /\ (pc = "returned" /\ input.fn = "estimate_vegetation_health"
            /\ input.image = UniformFile) =>
        output.health_index >= 700 /\ output.healthy_percentage > 500
    /\ (SymptomReturned /\ input.file = UniformFile) =>
        output.infection_rate <= 100

\* the quantised index floor(255 * ExG) of pixel i of the heatmap's input
HeatIndexAt(i) == Quantise(CalculateExcessGreenIndex(ArrayOf(input.image))[i])

\* C16: the heatmap has one 3-channel pixel per pixel of the input, and
\* every channel holds the true value of the palette's linear formula at
\* v = floor(255 * ExG), without 8-bit wrap-around: green R = 139 -
\* floor(0.5 v), G = v, B = 69 - floor(0.3 v); jet R = 255 - v, G = v, B = 0;
\* viridis-like R = floor(0.3 v), G = v, B = floor(255 - 0.5 v).
HeatmapIsLinear ==
    (pc = "returned" /\ input.fn = "generate_vegetation_heatmap") =>
        /\ DOMAIN output = 0..(input.image.w * input.image.h - 1)
        /\ \A i \in DOMAIN output :
            LET v == HeatIndexAt(i)
            IN  /\ Len(output[i]) = 3
                /\ input.colormap = "green" =>
                    /\ output[i][1] = 139 - (v \div 2)
                    /\ output[i][2] = v
                    /\ output[i][3] = 69 - ((3 * v) \div 10)
                /\ input.colormap = "jet" =>
                    /\ output[i][1] = 255 - v
                    /\ output[i][2] = v
                    /\ output[i][3] = 0
                /\ input.colormap = "viridis" =>
                    /\ output[i][1] = (3 * v) \div 10
                    /\ output[i][2] = v
                    /\ 2 * output[i][3] <= 510 - v
                    /\ 510 - v < 2 * output[i][3] + 2

---------------------------------------------------------------------------
(* Properties of the canopy counter *)

\* C17: without an explicit threshold count_trees_by_segmentation uses and
\* reports the 70th percentile of its index field clamped into [0.5, 0.7];
\* an explicit threshold is used unchanged; the vegetation mask is the set
\* of pixels whose index is strictly greater than the threshold.
TreeThresholdIsClampedPercentile ==
    TreesReturned =>
        LET t == output.parameters.exg_threshold
            p70 == Percentile(LoadImage(input.file, MaxSizeTrees).px, ExG01, 70)
        IN  /\ input.args.exg_threshold = None =>
                /\ ~FracLess(t, <<1, 2>>) /\ ~FracLess(<<7, 10>>, t)
                /\ FracLess(p70, <<1, 2>>) => t = <<1, 2>>
                /\ FracLess(<<7, 10>>, p70) => t = <<7, 10>>
                /\ (~FracLess(p70, <<1, 2>>) /\ ~FracLess(<<7, 10>>, p70)) => t = p70
            /\ input.args.exg_threshold # None => t = input.args.exg_threshold
            /\ locals.vegetation_mask =
                  {i \in DOMAIN locals.exg : FracLess(t, locals.exg[i])}

\* an automatic threshold that the clamp brought down to 0.7, with pixels
\* above and pixels at or below it
TreeThresholdIsClampedPercentileWitness ==
    /\ TreesReturned
    /\ input.args.exg_threshold = None
    /\ output.parameters.exg_threshold = <<7, 10>>
    /\ FracLess(<<7, 10>>, Percentile(LoadImage(input.file, MaxSizeTrees).px, ExG01, 70))
    /\ locals.vegetation_mask # {}
    /\ locals.vegetation_mask # DOMAIN locals.exg

\* the components of the processed mask that pass the area filter, with
\* the bounds scaled to the analysed array
CountedCanopies ==
    {st \in StatsOf(locals.labeled_mask, 8) :
        /\ input.args.min_tree_area * locals.scale[1] * locals.scale[1]
              <= st.area * locals.scale[2] * locals.scale[2]
        /\ st.area * locals.scale[2] * locals.scale[2]
              <= input.args.max_tree_area * locals.scale[1] * locals.scale[1]}

\* the reported area of a counted canopy: int(area / scale^2)
ReportedArea(st) ==
    (st.area * locals.scale[2] * locals.scale[2]) \div (locals.scale[1] * locals.scale[1])

\* C18: the summary of count_trees_by_segmentation covers every counted
\* canopy: total_trees is the number of components passing the area filter,
\* total_tree_area_pixels the sum of their areas, coverage_percentage is
\* total_tree_area_pixels / (original width x height) x 100 (to two
\* decimals), and 'trees' lists min(total_trees, 100) of them.
TreeSummaryCoversAll ==
    TreesReturned =>
        /\ output.total_trees = Cardinality(CountedCanopies)
        /\ output.total_tree_area_pixels =
              Sum([st \in CountedCanopies |-> ReportedArea(st)])
        /\ 2 * Abs(output.coverage_percentage * input.file.w * input.file.h
                   - 10000 * output.total_tree_area_pixels)
              <= input.file.w * input.file.h
        /\ Len(output.trees) = Min2(output.total_trees, 100)

\* more canopies counted than listed
TreeSummaryCoversAllWitness ==
    /\ TreesReturned
    /\ output.total_trees = 101
    /\ Len(output.trees) = 100
    /\ output.total_tree_area_pixels = 404

---------------------------------------------------------------------------
(* The analysis routes: one request, from its arrival to its answer.       *)
(* input is the request, output the answer ("none" until it is given),     *)
(* locals.analysis the Analysis row the handler added to the session,      *)
(* locals.called the calls it made, pc the position of the handler.  The   *)
(* image of the request belongs to the user, numpy, PIL, OpenCV and scipy  *)
(* are installed and torch is not (ML_AVAILABLE false).                    *)

\* the names the package backend.services.ml binds (services/ml/__init__.py)
MlExports ==
    {"ObjectDetector", "detect_objects", "detect_and_count", "get_detection_summary",
     "LandSegmenter", "segment_image", "get_segmentation_percentages", "segment_by_color",
     "SceneClassifier", "classify_scene", "classify_vegetation_type",
     "extract_all_features", "extract_texture_features", "extract_color_features",
     "detect_patterns"}

\* try: from backend.services.ml import name / except ImportError: name = None
\* in analysis.py: the name is a service when the package binds it
ImportedFromMl(name) == name \in MlExports

\* Query(default, ge=, le=) of the three single-head routes
Declared(fn) ==
    CASE fn = "detect_pests" ->
           [anomaly_threshold |-> [float |-> TRUE, ge |-> <<1, 2>>, le |-> <<5, 1>>],
            min_region_area |-> [float |-> FALSE, ge |-> 10, le |-> 10000]]
      [] fn = "estimate_biomass_endpoint" ->
           [min_canopy_area |-> [float |-> FALSE, ge |-> 10, le |-> 5000]]
      [] fn = "count_plants" ->
           [min_area |-> [float |-> FALSE, ge |-> 10, le |-> 5000],
            max_area |-> [float |-> FALSE, ge |-> 100, le |-> 100000]]

WithinUpperOnly(v, q) ==
    IF q.float THEN ~FracLess(q.le, v) ELSE v <= q.le

\* the constraint ge <= v <= le that the framework checks for a parameter
Within(v, q) ==
    IF q.float
    THEN ~FracLess(v, q.ge) /\ ~FracLess(q.le, v)
    ELSE q.ge <= v /\ v <= q.le

\* Field(..., min_length=3) of ROIRequest.roi_polygon
MinPolygon == 3

\* what the framework validates before it calls the handler
RequestValid(request) ==
    IF request.fn = "analyze_roi"
    THEN Len(request.body.roi_polygon) >= MinPolygon
    ELSE \A p \in DOMAIN Declared(request.fn) :
            Within(request.query[p], Declared(request.fn)[p])

NoAnalysis == [analysis_type |-> "none", status |-> "absent"]

\* stored is the file at image.file_path
Received(file) == [analysis |-> NoAnalysis, called |-> <<>>, stored |-> file]

DefaultTreeArgs ==
    [min_tree_area |-> 50, max_tree_area |-> 15000, kernel_size |-> 5,
     exg_threshold |-> None]

\* run_basic_analysis, as far as the routes read it
RunBasicAnalysis(file) ==
    [coverage |-> CalculateVegetationCoverage(ArrayOf(file), CoverageThreshold),
     health |-> EstimateVegetationHealth(ArrayOf(file)),
     image_size |-> [width |-> file.w, height |-> file.h]]

HeadValue(head, file, args) ==
    CASE head = "run_basic_analysis" -> RunBasicAnalysis(file)
      [] head = "count_trees_by_segmentation" -> CountTreesBySegmentation(file, args).result
      [] head = "detect_pest_disease" -> DetectPestDisease(file, args).result
      [] head = "estimate_biomass" -> EstimateBiomass(file, args).result

\* one call of a head from a handler: it raises when the request says so
HeadCall(head, file, args, raises) ==
    [head |-> head, args |-> args, raised |-> head \in raises,
     value |-> IF head \in raises THEN None ELSE HeadValue(head, file, args)]

\* what a handler remembers of a call
Made(call) == [head |-> call.head, args |-> call.args, raised |-> call.raised]

\* the try/except of a single-head route around its head
Handled(analysis_type, config, call, results) ==
    IF call.raised
    THEN [response |-> [status_code |-> 500],
          analysis |-> [analysis_type |-> analysis_type, status |-> "error",
                       config |-> config, results |-> None]]
    ELSE [response |-> [status_code |-> 200],
          analysis |-> [analysis_type |-> analysis_type, status |-> "completed",
                       config |-> config, results |-> results]]

\* the results dictionary count_plants builds from the head's
PlantCountResults(count_results) ==
    [total_count |-> count_results.total_trees,
     total_area_pixels |-> count_results.total_tree_area_pixels,
     coverage_percentage |-> count_results.coverage_percentage,
     locations |-> count_results.trees]

\* the analyses of a ROI request, in the order analyze_roi runs them
RoiOrder == <<"vegetation", "health", "plant_count", "pest_disease", "biomass">>

RoiHead(a) ==
    CASE a = "vegetation" -> "run_basic_analysis"
      [] a = "health" -> "estimate_vegetation_health"
      [] a = "plant_count" -> "count_trees_by_segmentation"
      [] a = "pest_disease" -> "detect_pest_disease"
      [] a = "biomass" -> "estimate_biomass"

\* the heads run_image_full_analysis runs without torch, in its order
FullOrder == <<"count_trees_by_segmentation", "detect_pest_disease", "estimate_biomass">>

FullKey(head) ==
    CASE head = "count_trees_by_segmentation" -> "tree_count"
      [] head = "detect_pest_disease" -> "pest_disease"
      [] head = "estimate_biomass" -> "biomass"

FullArgs(head) ==
    CASE head = "count_trees_by_segmentation" -> DefaultTreeArgs
      [] head = "detect_pest_disease" -> SymptomArgs
      [] head = "estimate_biomass" -> BiomassArgs

\* run_image_full_analysis once its calls are made: the basic analysis in
\* the outer try, each head in a try/except of its own
FullAnalysisOutcome(analysis, basic, calls) ==
    IF basic.raised
    THEN [analysis |-> [analysis EXCEPT !.status = "error"],
          image_status |-> "error",
          called |-> <<Made(basic)>>]
    ELSE [analysis |->
            [analysis EXCEPT
               !.status = "completed",
               !.results =
                  [vegetation_coverage |-> basic.value.coverage,
                   vegetation_health |-> basic.value.health,
                   ml |-> [k \in {j \in DOMAIN calls : ~calls[j].raised} |->
                             [key |-> FullKey(calls[k].head), value |-> calls[k].value]],
                   ml_errors |-> SelectSeq([k \in DOMAIN calls |-> calls[k].head],
                                           LAMBDA h : \E j \in DOMAIN calls :
                                                        calls[j].head = h /\ calls[j].raised)]],
          image_status |-> "analyzed",
          called |-> <<Made(basic)>> \o [k \in DOMAIN calls |-> Made(calls[k])]]

RunImageFullAnalysisOf(file, analysis, raises) ==
    FullAnalysisOutcome(analysis, HeadCall("run_basic_analysis", file, None, raises),
                        [k \in DOMAIN FullOrder |->
                           HeadCall(FullOrder[k], file, FullArgs(FullOrder[k]), raises)])

KeepImage(file, polygon) == file

\* apply_roi_mask: the pixels outside the polygon become black.  The
\* polygons of the requests are axis-parallel rectangles, which fillPoly
\* fills with their border.
ApplyRoiMask(file, polygon) ==
    LET x0 == SetMin({polygon[k][1] : k \in DOMAIN polygon})
        y0 == SetMin({polygon[k][2] : k \in DOMAIN polygon})
        x1 == SetMax({polygon[k][1] : k \in DOMAIN polygon})
        y1 == SetMax({polygon[k][2] : k \in DOMAIN polygon})
        clip(r) == <<Max2(r[1], x0), Max2(r[2], y0), Min2(r[3], x1), Min2(r[4], y1), r[5]>>
        whole == <<<<0, 0, file.w - 1, file.h - 1, file.bg>>>> \o file.rects
        clipped == [k \in DOMAIN whole |-> clip(whole[k])]
    IN  [w |-> file.w, h |-> file.h, bg |-> Black,
         rects |-> SelectSeq(clipped, LAMBDA r : r[1] <= r[3] /\ r[2] <= r[4])]

\* analyze_roi after the record is added: the mask, then each selected
\* analysis in a try/except of its own, the symptom and biomass heads only
\* when analysis.py imported them, then the masked image saved over the
\* stored file.  The values the heads compute on the masked image are
\* left out: an entry records whether it is an error.
AnalyzeRoiOf(file, body, analysis, raises) ==
    LET selected == SelectSeq(RoiOrder, LAMBDA a :
                        /\ a \in body.analyses
                        /\ a \in {"pest_disease", "biomass"} => ImportedFromMl(RoiHead(a)))
        made == [k \in DOMAIN selected |->
                    [head |-> RoiHead(selected[k]), args |-> None,
                     raised |-> RoiHead(selected[k]) \in raises]]
    IN  IF "apply_roi_mask" \in raises
        THEN [response |-> [status_code |-> 500],
              analysis |-> [analysis EXCEPT !.status = "error"],
              called |-> <<>>, stored |-> file]
        ELSE [response |-> [status_code |-> 200],
              analysis |->
                [analysis EXCEPT
                   !.status = "completed",
                   !.results = [k \in DOMAIN selected |->
                                  [analysis |-> selected[k], error |-> made[k].raised]]],
              called |-> made, stored |-> ApplyRoiMask(file, body.roi_polygon)]

(* Requests *)

RequestFiles ==
    {[w |-> PatchWidth, h |-> PatchHeight, bg |-> Soil,
      rects |-> <<<<1, 1, 2, 2, Green>>, <<3, 3, 4, 4, Green>>, <<6, 1, 7, 2, c3>>>>]
     : c3 \in {Soil, Chlorotic}}

AnomalyThresholds == {<<1, 4>>, <<1, 2>>, <<2, 1>>, <<5, 1>>, <<11, 2>>}

RegionAreas == {9, 10, 100, 10000, 10001}

CanopyAreas == {9, 10, 50, 5000, 5001}

MinAreas == {9, 10, 50, 5000, 5001}

MaxAreas == {99, 100, 15000, 100000, 100001}

Square == <<<<0, 0>>, <<PatchWidth, 0>>, <<PatchWidth, PatchHeight>>, <<0, PatchHeight>>>>

Plot == <<<<2, 1>>, <<5, 1>>, <<5, 4>>, <<2, 4>>>>

Polygons == {SubSeq(Square, 1, 2), Square, Plot}

RoiSelections ==
    {{"vegetation", "health", "plant_count"}, {"pest_disease", "biomass"},
     {"vegetation", "health", "plant_count", "pest_disease", "biomass"}}

RoiFaults ==
    {{}} \cup {{h} : h \in {"apply_roi_mask", "run_basic_analysis",
                            "estimate_vegetation_health", "count_trees_by_segmentation",
                            "detect_pest_disease", "estimate_biomass"}}

FullFaults ==
    SUBSET {"run_basic_analysis", "count_trees_by_segmentation",
            "detect_pest_disease", "estimate_biomass"}

Requests ==
    {[fn |-> "detect_pests", file |-> f, is_image |-> i, raises |-> r,
      query |-> [anomaly_threshold |-> t, min_region_area |-> a]]
     : f \in RequestFiles, i \in BOOLEAN, r \in {{}, {"detect_pest_disease"}},
       t \in AnomalyThresholds, a \in RegionAreas}
    \cup
    {[fn |-> "estimate_biomass_endpoint", file |-> f, is_image |-> i, raises |-> r,
      query |-> [min_canopy_area |-> a]]
     : f \in RequestFiles, i \in BOOLEAN, r \in {{}, {"estimate_biomass"}},
       a \in CanopyAreas}
    \cup
    {[fn |-> "count_plants", file |-> f, is_image |-> i, raises |-> r,
      query |-> [min_area |-> lo, max_area |-> hi]]
     : f \in RequestFiles, i \in BOOLEAN, r \in {{}, {"count_trees_by_segmentation"}},
       lo \in MinAreas, hi \in MaxAreas}
    \cup
    {[fn |-> "analyze_roi", file |-> f, is_image |-> i, raises |-> r,
      body |-> [roi_polygon |-> p, analyses |-> s]]
     : f \in RequestFiles, i \in BOOLEAN, r \in RoiFaults, p \in Polygons,
       s \in RoiSelections}
    \cup
    {[fn |-> "run_project_analysis", file |-> f, raises |-> r]
     : f \in RequestFiles, r \in FullFaults}

(* The handlers *)

ApiInit ==
    /\ input \in Requests
    /\ output = "none"
    /\ locals = Received(input.file)
    /\ pc = "received"

\* the framework's validation of the declared parameters and of the body
ValidateRequest ==
    /\ pc = "received"
    /\ input.fn # "run_project_analysis"
    /\ IF RequestValid(input)
       THEN /\ pc' = "validated"
            /\ output' = output
       ELSE /\ pc' = "responded"
            /\ output' = [status_code |-> 422]
    /\ UNCHANGED <<input, locals>>

DetectPestsEndpoint ==
    /\ pc = "validated"
    /\ input.fn = "detect_pests"
    /\ IF ~ImportedFromMl("detect_pest_disease")
       THEN /\ output' = [status_code |-> 501]
            /\ locals' = locals
       ELSE IF ~input.is_image
       THEN /\ output' = [status_code |-> 400]
            /\ locals' = locals
       ELSE \E call \in {HeadCall("detect_pest_disease", input.file, input.query,
                                  input.raises)} :
            \E r \in {Handled("pest_disease", input.query, call, call.value)} :
                /\ output' = r.response
                /\ locals' = [analysis |-> r.analysis, called |-> <<Made(call)>>,
                             stored |-> locals.stored]
    /\ pc' = "responded"
    /\ UNCHANGED input

EstimateBiomassEndpoint ==
    /\ pc = "validated"
    /\ input.fn = "estimate_biomass_endpoint"
    /\ IF ~ImportedFromMl("estimate_biomass")
       THEN /\ output' = [status_code |-> 501]
            /\ locals' = locals
       ELSE IF ~input.is_image
       THEN /\ output' = [status_code |-> 400]
            /\ locals' = locals
       ELSE \E call \in {HeadCall("estimate_biomass", input.file, input.query,
                                  input.raises)} :
            \E r \in {Handled("biomass", input.query, call, call.value)} :
                /\ output' = r.response
                /\ locals' = [analysis |-> r.analysis, called |-> <<Made(call)>>,
                             stored |-> locals.stored]
    /\ pc' = "responded"
    /\ UNCHANGED input

CountPlants ==
    /\ pc = "validated"
    /\ input.fn = "count_plants"
    /\ IF ~input.is_image
       THEN /\ output' = [status_code |-> 400]
            /\ locals' = locals
       ELSE \E call \in {HeadCall("count_trees_by_segmentation", input.file,
                                  [DefaultTreeArgs EXCEPT
                                     !.min_tree_area = input.query.min_area,
                                     !.max_tree_area = input.query.max_area],
                                  input.raises)} :
            \E r \in {Handled("plant_count", input.query, call,
                              PlantCountResults(call.value))} :
                /\ output' = r.response
                /\ locals' = [analysis |-> r.analysis, called |-> <<Made(call)>>,
                             stored |-> locals.stored]
    /\ pc' = "responded"
    /\ UNCHANGED input

AnalyzeRoi ==
    /\ pc = "validated"
    /\ input.fn = "analyze_roi"
    /\ IF ~input.is_image
       THEN /\ output' = [status_code |-> 400]
            /\ locals' = locals
       ELSE \E r \in {AnalyzeRoiOf(locals.stored, input.body,
                                   [analysis_type |-> "roi_analysis",
                                    status |-> "processing", config |-> input.body,
                                    results |-> None],
                                   input.raises)} :
                /\ output' = r.response
                /\ locals' = [analysis |-> r.analysis, called |-> r.called,
                             stored |-> r.stored]
    /\ pc' = "responded"
    /\ UNCHANGED input

\* run_project_analysis adds the record of an image whose file exists and
\* that has no completed full report, and starts its analysis
RunProjectAnalysis ==
    /\ pc = "received"
    /\ input.fn = "run_project_analysis"
    /\ locals' = [analysis |-> [analysis_type |-> "full_report", status |-> "processing",
                                config |-> [threshold |-> CoverageThreshold,
                                            auto_triggered |-> TRUE],
                                results |-> None],
                  called |-> <<>>, stored |-> locals.stored]
    /\ pc' = "processing"
    /\ UNCHANGED <<input, output>>

\* run_image_full_analysis returns to run_project_analysis without raising
RunImageFullAnalysis ==
    /\ pc = "processing"
    /\ input.fn = "run_project_analysis"
    /\ \E r \in {RunImageFullAnalysisOf(input.file, locals.analysis, input.raises)} :
        /\ locals' = [analysis |-> r.analysis, called |-> r.called,
                     stored |-> locals.stored]
        /\ output' = [raised |-> FALSE, image_status |-> r.image_status]
    /\ pc' = "responded"
    /\ UNCHANGED input

ApiNext ==
    \/ ValidateRequest
    \/ DetectPestsEndpoint
    \/ EstimateBiomassEndpoint
    \/ CountPlants
    \/ AnalyzeRoi
    \/ RunProjectAnalysis
    \/ RunImageFullAnalysis

ApiSpec == ApiInit /\ [][ApiNext]_vars

---------------------------------------------------------------------------
(* Properties of the routes *)

Responded == pc = "responded"

\* a parameter of the request that is outside its declared range
OutOfRange ==
    /\ input.fn \in {"detect_pests", "estimate_biomass_endpoint", "count_plants"}
    /\ \E p \in DOMAIN Declared(input.fn) :
          LET q == Declared(input.fn)[p]
              v == input.query[p]
          IN  IF q.float
              THEN FracLess(v, q.ge) \/ FracLess(q.le, v)
              ELSE v < q.ge \/ v > q.le

\* C19: a request to the symptom, biomass or plant-count route with a
\* parameter outside its declared range is answered with a validation
\* failure (422): no head is called with any value, clamped or not, and no
\* Analysis record is added.
OutOfRangeIsRejected ==
    (Responded /\ OutOfRange) =>
        /\ output.status_code = 422
        /\ locals.called = <<>>
        /\ locals.analysis = NoAnalysis

OutOfRangeIsRejectedWitness ==
    /\ Responded
    /\ input.fn = "detect_pests"
    /\ input.is_image
    /\ input.query.anomaly_threshold = <<1, 4>>
    /\ input.query.min_region_area = 100
    /\ output.status_code = 422
    /\ locals.analysis = NoAnalysis

\* a head raised while the request was served
HeadRaised == \E k \in DOMAIN locals.called : locals.called[k].raised

AnsweredAsFailure ==
    IF input.fn = "run_project_analysis"
    THEN output.raised
    ELSE output.status_code >= 500

\* C20: when a head raises while a request is served, the request is
\* answered as a failure and its Analysis record ends with status 'error'.
HeadFailurePropagates ==
    (Responded /\ HeadRaised) =>
        /\ AnsweredAsFailure
        /\ locals.analysis.status = "error"

---------------------------------------------------------------------------
(* Properties of the canopy summary of the biomass estimator *)

ListedCanopyArea == Sum([k \in DOMAIN output.canopy_patches |-> output.canopy_patches[k].area_pixels])

\* C29: in every result of estimate_biomass, canopy_count is the number of
\* patches listed, total_canopy_area_pixels is the sum of their areas and
\* avg_canopy_area (hundredths) is their mean area rounded to two decimals.
CanopyTotalsMatchList ==
    BiomassReturned =>
        /\ output.canopy_count = Len(output.canopy_patches)
        /\ output.total_canopy_area_pixels = ListedCanopyArea
        /\ output.avg_canopy_area =
              IF output.canopy_count > 0
              THEN RoundHalfEven(100 * ListedCanopyArea, output.canopy_count)
              ELSE 0

---------------------------------------------------------------------------
(* Properties of the vegetation mask *)

\* the file holds one colour only
UniformInput == \A k \in DOMAIN input.file.rects : input.file.rects[k][5] = input.file.bg

\* C30: in the symptom and biomass heads the vegetation mask holds at most
\* ceil(0.3 * (n - 1)) of the n pixels of the loaded image, and a file of
\* one colour gives the empty mask and the insufficient-vegetation result.
ExgMaskWithinPercentile ==
    (SymptomReturned \/ BiomassReturned) =>
        /\ 10 * Cardinality(locals.vegetation_mask) <= 3 * (locals.w * locals.h - 1) + 9
        /\ UniformInput =>
              /\ locals.vegetation_mask = {}
              /\ output.recommendations = <<"vegetacao_insuficiente">>

ExgMaskWithinPercentileWitness ==
    /\ BiomassReturned
    /\ input.file = UniformFile
    /\ locals.vegetation_mask = {}
    /\ output.canopy_count = 0
    /\ output.recommendations = <<"vegetacao_insuficiente">>

---------------------------------------------------------------------------
(* The event loop: two requests served by one asyncio loop.  input is the  *)
(* pair of requests, pc[i] the position of the handler of request i,       *)
(* locals.running the request whose coroutine holds the loop (0 when the   *)
(* loop is free), locals.next[i] the call the handler makes next and       *)
(* output[i] the answer.  A call written `await asyncio.to_thread(f, ..)`  *)
(* runs f on a worker thread and gives the loop back until f returns; a    *)
(* call written `f(..)` runs on the loop.                                  *)

Worker(head) == [head |-> head, on |-> "worker"]

Inline(head) == [head |-> head, on |-> "event_loop"]

\* the analyses analyze_roi runs of those selected
RoiSelected(analyses) ==
    SelectSeq(RoiOrder, LAMBDA a :
        /\ a \in analyses
        /\ a \in {"pest_disease", "biomass"} => ImportedFromMl(RoiHead(a)))

\* the head calls of each handler, in order, as the source writes them
Invocations(request) ==
    CASE request.fn = "analyze_vegetation" ->
           <<Inline("run_basic_analysis")>>
           \o (IF request.threshold # CoverageThreshold
               THEN <<Inline("calculate_vegetation_coverage")>> ELSE <<>>)
      [] request.fn = "analyze_plant_health" -> <<Inline("estimate_vegetation_health")>>
      [] request.fn = "count_plants" -> <<Inline("count_trees_by_segmentation")>>
      [] request.fn = "detect_pests" ->
           IF ImportedFromMl("detect_pest_disease") THEN <<Worker("detect_pest_disease")>> ELSE <<>>
      [] request.fn = "estimate_biomass_endpoint" ->
           IF ImportedFromMl("estimate_biomass") THEN <<Worker("estimate_biomass")>> ELSE <<>>
      [] request.fn = "analyze_roi" ->
           [k \in DOMAIN RoiSelected(request.analyses) |->
              Worker(RoiHead(RoiSelected(request.analyses)[k]))]

LoopRequests ==
    {[fn |-> "analyze_vegetation", threshold |-> t] : t \in {CoverageThreshold, <<1, 2>>}}
    \cup {[fn |-> f] : f \in {"analyze_plant_health", "count_plants", "detect_pests",
                              "estimate_biomass_endpoint"}}
    \cup {[fn |-> "analyze_roi", analyses |-> s] : s \in RoiSelections}

Clients == {1, 2}

LoopInit ==
    /\ input \in [Clients -> LoopRequests]
    /\ output = [i \in Clients |-> "none"]
    /\ locals = [running |-> 0, next |-> [i \in Clients |-> 1]]
    /\ pc = [i \in Clients |-> "queued"]

\* the loop is free and starts the handler of a queued request
Accept(i) ==
    /\ pc[i] = "queued"
    /\ locals.running = 0
    /\ pc' = [pc EXCEPT ![i] = "handling"]
    /\ locals' = [locals EXCEPT !.running = i]
    /\ UNCHANGED <<input, output>>

\* the handler calls a head directly: the head computes on the loop
CallInline(i) ==
    /\ pc[i] = "handling"
    /\ locals.running = i
    /\ locals.next[i] \in DOMAIN Invocations(input[i])
    /\ Invocations(input[i])[locals.next[i]].on = "event_loop"
    /\ pc' = [pc EXCEPT ![i] = "computing"]
    /\ UNCHANGED <<input, output, locals>>

\* the handler awaits asyncio.to_thread: the head computes on a worker and
\* the loop is given back
CallThread(i) ==
    /\ pc[i] = "handling"
    /\ locals.running = i
    /\ locals.next[i] \in DOMAIN Invocations(input[i])
    /\ Invocations(input[i])[locals.next[i]].on = "worker"
    /\ pc' = [pc EXCEPT ![i] = "computing"]
    /\ locals' = [locals EXCEPT !.running = 0]
    /\ UNCHANGED <<input, output>>

\* a head called directly returns to its handler
ReturnInline(i) ==
    /\ pc[i] = "computing"
    /\ locals.running = i
    /\ pc' = [pc EXCEPT ![i] = "handling"]
    /\ locals' = [locals EXCEPT !.next[i] = @ + 1]
    /\ UNCHANGED <<input, output>>

\* a head on a worker thread finishes: its handler can be resumed
ThreadDone(i) ==
    /\ pc[i] = "computing"
    /\ locals.running # i
    /\ pc' = [pc EXCEPT ![i] = "resumable"]
    /\ UNCHANGED <<input, output, locals>>

\* the free loop resumes a handler whose awaited call has finished
Resume(i) ==
    /\ pc[i] = "resumable"
    /\ locals.running = 0
    /\ pc' = [pc EXCEPT ![i] = "handling"]
    /\ locals' = [locals EXCEPT !.running = i, !.next[i] = @ + 1]
    /\ UNCHANGED <<input, output>>

\* the handler has made its calls and returns the analysis
Answer(i) ==
    /\ pc[i] = "handling"
    /\ locals.running = i
    /\ locals.next[i] \notin DOMAIN Invocations(input[i])
    /\ pc' = [pc EXCEPT ![i] = "answered"]
    /\ output' = [output EXCEPT ![i] = "answered"]
    /\ locals' = [locals EXCEPT !.running = 0]
    /\ UNCHANGED input

LoopNext ==
    \E i \in Clients :
        \/ Accept(i)
        \/ CallInline(i)
        \/ CallThread(i)
        \/ ReturnInline(i)
        \/ ThreadDone(i)
        \/ Resume(i)
        \/ Answer(i)

LoopSpec == LoopInit /\ [][LoopNext]_vars

\* C21: while a head computes for a request, the event loop is free (every
\* head call of a handler runs on a worker thread), so a queued request can
\* still be accepted.
HeadsRunOffTheLoop ==
    \A i \in Clients :
        pc[i] = "computing" =>
            /\ locals.running = 0
            /\ \A j \in Clients : pc[j] = "queued" => ENABLED Accept(j)

---------------------------------------------------------------------------
(* Properties of the availability of the heads *)

\* C22: a valid request of the owner of an image to the symptom or the
\* biomass route, whose head does not raise, is answered 200 with an
\* analysis of type 'pest_disease' / 'biomass' and status 'completed'.
HeuristicRoutesAnswer ==
    (/\ Responded
     /\ input.fn \in {"detect_pests", "estimate_biomass_endpoint"}
     /\ RequestValid(input)
     /\ input.is_image
     /\ input.raises = {}) =>
        /\ output.status_code = 200
        /\ locals.analysis.status = "completed"
        /\ locals.analysis.analysis_type =
              (IF input.fn = "detect_pests" THEN "pest_disease" ELSE "biomass")

\* ---------------------------------------------------------------------
\* The resource routes: two users and one database.  locals is the
\* database (projects, images and analyses as sets of rows), input the
\* request being served and output its response.
\* ---------------------------------------------------------------------

Users == {1, 2}

MaxRows == 2

EmptyDb == [projects |-> {}, images |-> {}, analyses |-> {}]

\* An Integer primary key: the row after the highest one of the table.
NextId(rows) == IF rows = {} THEN 1 ELSE SetMax({r.id : r \in rows}) + 1

OwnerFilterOpen(project, user) == TRUE

\* Project.owner_id == current_user.id
OwnerFilter(project, user) == project.owner_id = user

\* select(Project).where(Project.id == project_id, Project.owner_id == current_user.id)
UserProject(db, user, project_id) == {p \in db.projects : p.id = project_id /\ OwnerFilter(p, user)}

\* Image.project.has(Project.owner_id == current_user.id)
ImageFilter(db, user, image) == \E p \in db.projects : p.id = image.project_id /\ OwnerFilter(p, user)

\* Analysis.image.has(Image.project.has(Project.owner_id == current_user.id))
AnalysisFilter(db, user, analysis) == \E i \in db.images : i.id = analysis.image_id /\ ImageFilter(db, user, i)

\* cascade="all, delete-orphan" on Project.images and Image.analyses
Cascade(db) == LET images == {i \in db.images : \E p \in db.projects : p.id = i.project_id} IN [projects |-> db.projects, images |-> images, analyses |-> {a \in db.analyses : \E i \in images : i.id = a.image_id}]

NotFound(db) == [status |-> 404, body |-> None, db |-> db]

create_project(db, user) == LET project == [id |-> NextId(db.projects), owner_id |-> user] IN [status |-> 201, body |-> <<project.id>>, db |-> [db EXCEPT !.projects = @ \cup {project}]]

list_projects(db, user) == [status |-> 200, body |-> <<{p.id : p \in {q \in db.projects : OwnerFilter(q, user)}}>>, db |-> db]

get_dashboard_stats(db, user) == [status |-> 200, body |-> <<Cardinality({p \in db.projects : OwnerFilter(p, user)}), Cardinality({i \in db.images : ImageFilter(db, user, i)}), Cardinality({a \in db.analyses : AnalysisFilter(db, user, a)})>>, db |-> db]

get_project(db, user, project_id) == IF UserProject(db, user, project_id) = {} THEN NotFound(db) ELSE [status |-> 200, body |-> <<project_id, Cardinality({i \in db.images : i.project_id = project_id})>>, db |-> db]

delete_project(db, user, project_id) == IF UserProject(db, user, project_id) = {} THEN NotFound(db) ELSE [status |-> 204, body |-> None, db |-> Cascade([db EXCEPT !.projects = @ \ UserProject(db, user, project_id)])]

get_project_timeline(db, user, project_id) == IF UserProject(db, user, project_id) = {} THEN NotFound(db) ELSE [status |-> 200, body |-> <<{a.id : a \in {b \in db.analyses : \E i \in db.images : i.id = b.image_id /\ i.project_id = project_id}}>>, db |-> db]

upload_image(db, user, project_id) == IF UserProject(db, user, project_id) = {} THEN NotFound(db) ELSE LET image == [id |-> NextId(db.images), project_id |-> project_id] IN [status |-> 201, body |-> <<image.id>>, db |-> [db EXCEPT !.images = @ \cup {image}]]

list_images(db, user) == [status |-> 200, body |-> <<{i.id : i \in {j \in db.images : ImageFilter(db, user, j)}}>>, db |-> db]

UserImage(db, user, image_id) == {i \in db.images : i.id = image_id /\ ImageFilter(db, user, i)}

get_image(db, user, image_id) == IF UserImage(db, user, image_id) = {} THEN NotFound(db) ELSE [status |-> 200, body |-> <<image_id, Only(UserImage(db, user, image_id)).project_id>>, db |-> db]

delete_image(db, user, image_id) == IF UserImage(db, user, image_id) = {} THEN NotFound(db) ELSE [status |-> 204, body |-> None, db |-> Cascade([db EXCEPT !.images = @ \ UserImage(db, user, image_id)])]

\* get_user_image, then a new completed full_report of the image.
generate_full_report(db, user, image_id) == IF UserImage(db, user, image_id) = {} THEN NotFound(db) ELSE LET analysis == [id |-> NextId(db.analyses), image_id |-> image_id] IN [status |-> 200, body |-> <<analysis.id, image_id>>, db |-> [db EXCEPT !.analyses = @ \cup {analysis}]]

list_analyses(db, user) == [status |-> 200, body |-> <<{a.id : a \in {b \in db.analyses : AnalysisFilter(db, user, b)}}>>, db |-> db]

UserAnalysis(db, user, analysis_id) == {a \in db.analyses : a.id = analysis_id /\ AnalysisFilter(db, user, a)}

get_analysis(db, user, analysis_id) == IF UserAnalysis(db, user, analysis_id) = {} THEN NotFound(db) ELSE [status |-> 200, body |-> <<analysis_id, Only(UserAnalysis(db, user, analysis_id)).image_id>>, db |-> db]

delete_analysis(db, user, analysis_id) == IF UserAnalysis(db, user, analysis_id) = {} THEN NotFound(db) ELSE [status |-> 204, body |-> None, db |-> [db EXCEPT !.analyses = @ \ UserAnalysis(db, user, analysis_id)]]

Listings == {"list_projects", "get_dashboard_stats", "list_images", "list_analyses"}

ProjectRoutes == {"get_project", "delete_project", "get_project_timeline", "upload_image"}

ImageRoutes == {"get_image", "delete_image", "generate_full_report"}

AnalysisRoutes == {"get_analysis", "delete_analysis"}

Routes == {"create_project"} \cup Listings \cup ProjectRoutes \cup ImageRoutes \cup AnalysisRoutes

\* The handler of a request, run on a database.
Serve(db, r) ==
    CASE r.route = "create_project" -> create_project(db, r.user)
      [] r.route = "list_projects" -> list_projects(db, r.user)
      [] r.route = "get_dashboard_stats" -> get_dashboard_stats(db, r.user)
      [] r.route = "get_project" -> get_project(db, r.user, r.id)
      [] r.route = "delete_project" -> delete_project(db, r.user, r.id)
      [] r.route = "get_project_timeline" -> get_project_timeline(db, r.user, r.id)
      [] r.route = "upload_image" -> upload_image(db, r.user, r.id)
      [] r.route = "list_images" -> list_images(db, r.user)
      [] r.route = "get_image" -> get_image(db, r.user, r.id)
      [] r.route = "delete_image" -> delete_image(db, r.user, r.id)
      [] r.route = "generate_full_report" -> generate_full_report(db, r.user, r.id)
      [] r.route = "list_analyses" -> list_analyses(db, r.user)
      [] r.route = "get_analysis" -> get_analysis(db, r.user, r.id)
      [] r.route = "delete_analysis" -> delete_analysis(db, r.user, r.id)

\* The rows a new one would exceed the table bound of the model.
Fits(db, route) ==
    CASE route = "create_project" -> NextId(db.projects) <= MaxRows
      [] route = "upload_image" -> NextId(db.images) <= MaxRows
      [] route = "generate_full_report" -> NextId(db.analyses) <= MaxRows
      [] OTHER -> TRUE

AccessInit ==
    /\ input = [user |-> 1, route |-> "list_projects", id |-> 0]
    /\ output = [status |-> 200, body |-> <<{}>>]
    /\ locals = EmptyDb
    /\ pc = "answered"

\* One request, served to its response.
Respond(r) ==
    /\ Fits(locals, r.route)
    /\ input' = r
    /\ output' = [status |-> Serve(locals, r).status, body |-> Serve(locals, r).body]
    /\ locals' = Serve(locals, r).db

CreateProject ==
    /\ \E user \in Users : Respond([user |-> user, route |-> "create_project", id |-> 0])
    /\ pc' = "answered"

ListProjects ==
    /\ \E user \in Users : Respond([user |-> user, route |-> "list_projects", id |-> 0])
    /\ pc' = "answered"

GetDashboardStats ==
    /\ \E user \in Users : Respond([user |-> user, route |-> "get_dashboard_stats", id |-> 0])
    /\ pc' = "answered"

GetProject ==
    /\ \E user \in Users, id \in 1..MaxRows : Respond([user |-> user, route |-> "get_project", id |-> id])
    /\ pc' = "answered"

DeleteProject ==
    /\ \E user \in Users, id \in 1..MaxRows : Respond([user |-> user, route |-> "delete_project", id |-> id])
    /\ pc' = "answered"

GetProjectTimeline ==
    /\ \E user \in Users, id \in 1..MaxRows : Respond([user |-> user, route |-> "get_project_timeline", id |-> id])
    /\ pc' = "answered"

UploadImage ==
    /\ \E user \in Users, id \in 1..MaxRows : Respond([user |-> user, route |-> "upload_image", id |-> id])
    /\ pc' = "answered"

ListImages ==
    /\ \E user \in Users : Respond([user |-> user, route |-> "list_images", id |-> 0])
    /\ pc' = "answered"

GetImage ==
    /\ \E user \in Users, id \in 1..MaxRows : Respond([user |-> user, route |-> "get_image", id |-> id])
    /\ pc' = "answered"

DeleteImage ==
    /\ \E user \in Users, id \in 1..MaxRows : Respond([user |-> user, route |-> "delete_image", id |-> id])
    /\ pc' = "answered"

GenerateFullReport ==
    /\ \E user \in Users, id \in 1..MaxRows : Respond([user |-> user, route |-> "generate_full_report", id |-> id])
    /\ pc' = "answered"

ListAnalyses ==
    /\ \E user \in Users : Respond([user |-> user, route |-> "list_analyses", id |-> 0])
    /\ pc' = "answered"

GetAnalysis ==
    /\ \E user \in Users, id \in 1..MaxRows : Respond([user |-> user, route |-> "get_analysis", id |-> id])
    /\ pc' = "answered"

DeleteAnalysis ==
    /\ \E user \in Users, id \in 1..MaxRows : Respond([user |-> user, route |-> "delete_analysis", id |-> id])
    /\ pc' = "answered"

AccessNext ==
    \/ CreateProject
    \/ ListProjects
    \/ GetDashboardStats
    \/ GetProject
    \/ DeleteProject
    \/ GetProjectTimeline
    \/ UploadImage
    \/ ListImages
    \/ GetImage
    \/ DeleteImage
    \/ GenerateFullReport
    \/ ListAnalyses
    \/ GetAnalysis
    \/ DeleteAnalysis

AccessSpec == AccessInit /\ [][AccessNext]_vars

\* ---------------------------------------------------------------------
\* Properties of the isolation between users
\* ---------------------------------------------------------------------

\* The owner of the project that contains a row, read off the rows.
OwnersOfProject(db, id) == {p.owner_id : p \in {q \in db.projects : q.id = id}}

OwnersOfImage(db, id) == UNION {OwnersOfProject(db, i.project_id) : i \in {j \in db.images : j.id = id}}

OwnersOfAnalysis(db, id) == UNION {OwnersOfImage(db, a.image_id) : a \in {b \in db.analyses : b.id = id}}

OwnersOfTarget(db, r) ==
    CASE r.route \in ProjectRoutes -> OwnersOfProject(db, r.id)
      [] r.route \in ImageRoutes -> OwnersOfImage(db, r.id)
      [] r.route \in AnalysisRoutes -> OwnersOfAnalysis(db, r.id)
      [] OTHER -> {}

\* The database with the rows of the other users removed.
OwnData(db, user) == Cascade([db EXCEPT !.projects = {p \in db.projects : p.owner_id = user}])

OthersData(db, user) == [projects |-> db.projects \ OwnData(db, user).projects, images |-> db.images \ OwnData(db, user).images, analyses |-> db.analyses \ OwnData(db, user).analyses]

\* What the routes that read, list or delete answer, and what they leave
\* of the requesting user's rows, is what they would on OwnData alone
\* (new rows are numbered by the table, so their routes are compared on
\* status only).
SameObservation(db, r) ==
    LET here == Serve(db, r)
        alone == Serve(OwnData(db, r.user), r)
    IN  /\ here.status = alone.status
        /\ r.route \notin {"create_project", "upload_image", "generate_full_report"} => here.body = alone.body /\ OwnData(here.db, r.user) = alone.db

Isolated ==
    LET r == input'
        db == locals
    IN  /\ r.route \in ProjectRoutes \cup ImageRoutes \cup AnalysisRoutes =>
              /\ output'.status # 404 => OwnersOfTarget(db, r) = {r.user}
              /\ OwnersOfTarget(db, r) # {r.user} => output'.status = 404 /\ locals' = db
        /\ r.route = "list_projects" => output'.body[1] = {p.id : p \in OwnData(db, r.user).projects}
        /\ r.route = "list_images" => output'.body[1] = {i.id : i \in OwnData(db, r.user).images}
        /\ r.route = "list_analyses" => output'.body[1] = {a.id : a \in OwnData(db, r.user).analyses}
        /\ r.route = "get_dashboard_stats" => output'.body = <<Cardinality(OwnData(db, r.user).projects), Cardinality(OwnData(db, r.user).images), Cardinality(OwnData(db, r.user).analyses)>>
        /\ OthersData(locals', r.user) = OthersData(db, r.user)
        /\ SameObservation(db, r)

MaxTime == 4

MaxTokens == 3

\* timedelta(hours=1), the clock counting half hours
Hour == 2

MinPassword == 6

Emails == {"ana@farm", "rui@farm"}

UnknownEmail == "nobody@farm"

Passwords == {"secret1", "resetted123", "newpass456", "short"}

\* pwd_context.hash and pwd_context.verify
get_password_hash(password) == <<"argon2", password>>

verify_password(plain_password, hashed_password) == hashed_password = <<"argon2", plain_password>>

\* PasswordResetConfirm: new_password of 6 to 100 characters
SchemaValid(r) == r.route = "reset_confirm" => Len(r.new_password) >= MinPassword

TokenValidAlways(user, token, now) == user.reset_token = <<token>>

\* User.reset_token == data.token, User.reset_token_expires > now
TokenValid(user, token, now) == user.reset_token = <<token>> /\ user.reset_token_expires[1] > now

request_password_reset(db, email) ==
    IF email \notin DOMAIN db.users
    THEN [status |-> 200, db |-> db]
    ELSE [status |-> 200, db |-> [db EXCEPT !.issued = @ + 1, !.users[email].reset_token = <<db.issued + 1>>, !.users[email].reset_token_expires = <<db.now + Hour>>]]

confirm_password_reset(db, token, new_password) ==
    LET found == {e \in DOMAIN db.users : TokenValid(db.users[e], token, db.now)}
    IN  IF found = {}
        THEN [status |-> 400, db |-> db]
        ELSE [status |-> 200, db |-> [db EXCEPT !.users[Only(found)].hashed_password = get_password_hash(new_password), !.users[Only(found)].reset_token = None, !.users[Only(found)].reset_token_expires = None]]

login(db, email, password) ==
    IF email \notin DOMAIN db.users
    THEN [status |-> 401, db |-> db]
    ELSE IF ~verify_password(password, db.users[email].hashed_password)
         THEN [status |-> 401, db |-> db]
         ELSE IF ~db.users[email].is_active THEN [status |-> 403, db |-> db] ELSE [status |-> 200, db |-> db]

AuthInit ==
    /\ input = [route |-> "login", email |-> UnknownEmail, password |-> "secret1"]
    /\ output = [status |-> 401]
    /\ locals = [users |-> [e \in Emails |-> [hashed_password |-> get_password_hash("secret1"), reset_token |-> None, reset_token_expires |-> None, is_active |-> TRUE]], now |-> 0, issued |-> 0]
    /\ pc = "answered"

\* Half an hour passes.
Tick ==
    /\ locals.now < MaxTime
    /\ locals' = [locals EXCEPT !.now = @ + 1]
    /\ UNCHANGED <<input, output, pc>>

RequestPasswordReset ==
    /\ locals.issued < MaxTokens
    /\ \E email \in Emails \cup {UnknownEmail} :
          /\ input' = [route |-> "reset_request", email |-> email]
          /\ output' = [status |-> request_password_reset(locals, email).status]
          /\ locals' = request_password_reset(locals, email).db
    /\ pc' = "answered"

ConfirmPasswordReset ==
    /\ \E token \in 0..MaxTokens, new_password \in Passwords :
          LET r == [route |-> "reset_confirm", token |-> token, new_password |-> new_password]
          IN  /\ input' = r
              /\ output' = [status |-> IF SchemaValid(r) THEN confirm_password_reset(locals, token, new_password).status ELSE 422]
              /\ locals' = IF SchemaValid(r) THEN confirm_password_reset(locals, token, new_password).db ELSE locals
    /\ pc' = "answered"

Login ==
    /\ \E email \in Emails \cup {UnknownEmail}, password \in Passwords :
          /\ input' = [route |-> "login", email |-> email, password |-> password]
          /\ output' = [status |-> login(locals, email, password).status]
          /\ locals' = login(locals, email, password).db
    /\ pc' = "answered"

AuthNext ==
    \/ Tick
    \/ RequestPasswordReset
    \/ ConfirmPasswordReset
    \/ Login

AuthSpec == AuthInit /\ [][AuthNext]_vars

\* ---------------------------------------------------------------------
\* Properties of the password reset
\* ---------------------------------------------------------------------

\* The users whose stored token is the presented one and has not expired.
Holders(db, token) == {e \in DOMAIN db.users : db.users[e].reset_token # None /\ db.users[e].reset_token[1] = token /\ db.users[e].reset_token_expires[1] > db.now}

\* The steps other than Tick leave the clock alone and set input to
\* their request.
ResetConfirmStep ==
    LET r == input'
        holders == Holders(locals, r.token)
    IN  r.route = "reset_confirm" /\ locals'.now = locals.now /\ SchemaValid(r) =>
          /\ \A e \in Emails :
                /\ locals'.users[e].hashed_password # locals.users[e].hashed_password => e \in holders
                /\ e \in holders =>
                      /\ output'.status = 200
                      /\ login(locals', e, r.new_password).status = 200
                      /\ locals'.users[e].reset_token = None
                /\ e \notin holders => locals'.users[e] = locals.users[e]
          /\ holders = {} => output'.status = 400 /\ locals' = locals
          /\ confirm_password_reset(locals', r.token, r.new_password).status = 400

\* C24: reset-confirm (with a well-formed body) changes a user's password
\* exactly when the presented token is that user's stored token and its
\* expiry, one hour after reset-request issued it, has not passed; then
\* login with the new password succeeds, the token is cleared and
\* presenting it again is rejected; an unknown or expired token is
\* answered 400 and changes nothing.
ResetConfirmHonoursToken == [][ResetConfirmStep]_vars

\* A token was confirmed in the hour after it was issued.
ResetConfirmHonoursTokenWitness ==
    /\ input.route = "reset_confirm"
    /\ output.status = 200
    /\ locals.now > 0
    /\ \E e \in Emails : locals.users[e].hashed_password = get_password_hash(input.new_password) /\ locals.users[e].reset_token = None

\* ---------------------------------------------------------------------
\* Properties of the stored image
\* ---------------------------------------------------------------------

SamePixels(f, g) ==
    /\ f.w = g.w
    /\ f.h = g.h
    /\ \A x \in 0..(f.w - 1), y \in 0..(f.h - 1) : PixelAt(f, x, y) = PixelAt(g, x, y)

RoiCompleted == input.fn = "analyze_roi" /\ pc = "responded" /\ output.status_code = 200

InsideRoi(polygon, x, y) ==
    /\ \E k \in DOMAIN polygon : polygon[k][1] <= x
    /\ \E k \in DOMAIN polygon : polygon[k][1] >= x
    /\ \E k \in DOMAIN polygon : polygon[k][2] <= y
    /\ \E k \in DOMAIN polygon : polygon[k][2] >= y

MaxImages == 2

MaxTasks == 2

MaxAnalyses == 4

ProjectImages == 1..MaxImages

Tasks == 1..MaxTasks

NoTask == [pc |-> "none", todo |-> <<>>, scheduled |-> {}, image |-> 0, analysis |-> 0, raised |-> "nothing"]

\* The completed full reports of an image.
CompletedReports(db, image_id) == {a \in db.analyses : a.image_id = image_id /\ a.analysis_type = "full_report" /\ a.status = "completed"}

\* Result.scalar_one_or_none: MultipleResultsFound on more than one row
ScalarOneOrNone(rows) == IF Cardinality(rows) > 1 THEN [raised |-> TRUE, found |-> FALSE] ELSE [raised |-> FALSE, found |-> rows # {}]

\* The images of a project in the order of the query.
ImageOrder == [k \in ProjectImages |-> k]

\* analyze_project up to its first commit: the analyses in error or in
\* processing are deleted and the status of their images is reset.
ClearStale(db) ==
    [db EXCEPT !.analyses = {a \in @ : a.status \notin {"error", "processing"}},
               !.images = [i \in ProjectImages |-> IF @[i].status \in {"processing", "error"} THEN [@[i] EXCEPT !.status = "uploaded"] ELSE @[i]]]

\* analyze_project after that commit: the images without a completed full
\* report are scheduled; a failing query ends the request with 500 and
\* rolls back what was not committed.
analyze_project(db0, slot) ==
    LET db == ClearStale(db0)
        checks == [k \in DOMAIN ImageOrder |-> ScalarOneOrNone(CompletedReports(db, ImageOrder[k]))]
        to_analyze == SelectSeq(ImageOrder, LAMBDA i : ~checks[i].found)
    IN  IF \E k \in DOMAIN checks : checks[k].raised
        THEN [status_code |-> 500, analyses_started |-> 0, db |-> db]
        ELSE IF to_analyze = <<>>
        THEN [status_code |-> 200, analyses_started |-> 0, db |-> db]
        ELSE [status_code |-> 200, analyses_started |-> Len(to_analyze),
              db |-> [db EXCEPT !.status = "processing",
                                !.images = [i \in ProjectImages |-> IF \E k \in DOMAIN to_analyze : to_analyze[k] = i THEN [@[i] EXCEPT !.status = "processing"] ELSE @[i]],
                                !.tasks[slot] = [pc |-> "loop", todo |-> to_analyze, scheduled |-> {to_analyze[k] : k \in DOMAIN to_analyze}, image |-> 0, analysis |-> 0, raised |-> "nothing"]]]

\* The except branch of run_project_analysis: a project left in
\* processing is marked as error.
TaskFailed(db, t, raised) == [db EXCEPT !.tasks[t].pc = "failed", !.tasks[t].raised = raised, !.status = IF @ = "processing" THEN "error" ELSE @]

ProjectInit ==
    /\ input = [route |-> "none", image |-> 0]
    /\ output = [status_code |-> 0, analyses_started |-> 0]
    /\ \E exists \in [ProjectImages -> BOOLEAN] :
          locals = [status |-> "pending",
                    images |-> [i \in ProjectImages |-> [status |-> "uploaded", file_exists |-> exists[i]]],
                    analyses |-> {},
                    tasks |-> [t \in Tasks |-> NoTask]]
    /\ pc = "uploaded"

\* POST /analysis/report/{image_id}: a new completed full report.
PostReport ==
    /\ NextId(locals.analyses) <= MaxAnalyses
    /\ \E i \in ProjectImages :
          /\ input' = [route |-> "generate_full_report", image |-> i]
          /\ IF locals.images[i].file_exists
             THEN /\ output' = [status_code |-> 200, analyses_started |-> 0]
                  /\ locals' = [locals EXCEPT !.analyses = @ \cup {[id |-> NextId(locals.analyses), image_id |-> i, analysis_type |-> "full_report", status |-> "completed"]}]
             ELSE /\ output' = [status_code |-> 404, analyses_started |-> 0]
                  /\ locals' = locals
    /\ pc' = "PostReport"

\* POST /projects/{id}/analyze
PostAnalyze ==
    /\ \E slot \in Tasks :
          /\ locals.tasks[slot].pc = "none"
          /\ \A t \in Tasks : t < slot => locals.tasks[t].pc # "none"
          /\ input' = [route |-> "analyze_project", image |-> 0]
          /\ output' = [status_code |-> analyze_project(locals, slot).status_code, analyses_started |-> analyze_project(locals, slot).analyses_started]
          /\ locals' = analyze_project(locals, slot).db
    /\ pc' = "PostAnalyze"

\* run_project_analysis at the head of its loop: the next image is
\* skipped, or gets its record in processing, or the query for its
\* completed report raises.
TaskLoop(t) ==
    /\ locals.tasks[t].pc = "loop"
    /\ locals.tasks[t].todo # <<>>
    /\ LET i == Head(locals.tasks[t].todo)
           rest == [locals EXCEPT !.tasks[t].todo = Tail(@)]
           existing == ScalarOneOrNone(CompletedReports(locals, i))
       IN  IF ~locals.images[i].file_exists
           THEN locals' = rest
           ELSE IF existing.raised
           THEN locals' = TaskFailed(rest, t, "MultipleResultsFound")
           ELSE IF existing.found
           THEN locals' = rest
           ELSE /\ NextId(locals.analyses) <= MaxAnalyses
                /\ locals' = [rest EXCEPT !.analyses = @ \cup {[id |-> NextId(locals.analyses), image_id |-> i, analysis_type |-> "full_report", status |-> "processing"]},
                                          !.tasks[t].pc = "running",
                                          !.tasks[t].image = i,
                                          !.tasks[t].analysis = NextId(locals.analyses)]
    /\ pc' = "TaskLoop"
    /\ UNCHANGED <<input, output>>

\* run_image_full_analysis returns: the record and the image are marked
\* completed or error.  The commit of a record that was deleted in the
\* meantime raises, and the recovery of run_project_analysis runs on a
\* session whose flush failed.
TaskAnalyse(t) ==
    /\ locals.tasks[t].pc = "running"
    /\ LET id == locals.tasks[t].analysis
           i == locals.tasks[t].image
       IN  IF \E a \in locals.analyses : a.id = id
           THEN \E ended \in {"completed", "error"} :
                   locals' = [locals EXCEPT !.analyses = {IF a.id = id THEN [a EXCEPT !.status = ended] ELSE a : a \in @},
                                            !.images[i].status = IF ended = "completed" THEN "analyzed" ELSE "error",
                                            !.tasks[t].pc = "loop",
                                            !.tasks[t].analysis = 0]
           ELSE \E recovered \in BOOLEAN :
                   locals' = IF recovered THEN TaskFailed(locals, t, "StaleDataError") ELSE [locals EXCEPT !.tasks[t].pc = "failed", !.tasks[t].raised = "StaleDataError"]
    /\ pc' = "TaskAnalyse"
    /\ UNCHANGED <<input, output>>

\* run_project_analysis after its loops: the project is completed.
TaskFinish(t) ==
    /\ locals.tasks[t].pc = "loop"
    /\ locals.tasks[t].todo = <<>>
    /\ locals' = [locals EXCEPT !.status = "completed", !.tasks[t].pc = "done"]
    /\ pc' = "TaskFinish"
    /\ UNCHANGED <<input, output>>

ProjectNext ==
    \/ PostReport
    \/ PostAnalyze
    \/ \E t \in Tasks : TaskLoop(t)
    \/ \E t \in Tasks : TaskAnalyse(t)
    \/ \E t \in Tasks : TaskFinish(t)

ProjectSpec == ProjectInit /\ [][ProjectNext]_vars

\* ---------------------------------------------------------------------
\* Properties of the analysis of a project
\* ---------------------------------------------------------------------

\* C26: neither POST /projects/{id}/analyze nor the background task
\* fails on an image that has several completed full reports: the
\* request is not answered 500 and the task does not end in its except
\* branch on the query for the completed report.
DuplicateReportsAreSkipped ==
    /\ pc = "PostAnalyze" => output.status_code # 500
    /\ \A t \in Tasks : locals.tasks[t].raised # "MultipleResultsFound"

\* C27: the record a background task is working on exists, in
\* processing, and no two tasks work on the same image.
InFlightAnalysisIsKept ==
    \A t \in Tasks :
        locals.tasks[t].pc = "running" =>
            /\ \E a \in locals.analyses : a.id = locals.tasks[t].analysis /\ a.image_id = locals.tasks[t].image /\ a.status = "processing"
            /\ \A u \in Tasks \ {t} : locals.tasks[u].pc = "running" => locals.tasks[u].image # locals.tasks[t].image

\* C28: when the background task has just set the project to completed,
\* every image scheduled in that run has a completed analysis.
CompletedProjectIsAnalysed ==
    pc = "TaskFinish" /\ locals.status = "completed" =>
        \A t \in Tasks :
            locals.tasks[t].pc = "done" =>
                \A i \in locals.tasks[t].scheduled : \E a \in locals.analyses : a.image_id = i /\ a.status = "completed"

=============================================================================
